---- MODULE Spec2Model ----
(***************************************************************************)
(* Model of the VCS backend utilities of spyder/plugins/vcs/utils:         *)
(*   - VCSBackendManager (api.py): backend selection (repodir setter),     *)
(*     register_backend and the attribute forwarding hooks;                *)
(*   - git_remote_operation_posix and GitBackend._remote_operation         *)
(*     (backend.py): the interactive credential session and the way its    *)
(*     outcome is turned into a result or an error (errors.py).            *)
(*                                                                         *)
(* Modelling note on VCSBackendManager.__init__ (api.py 842-846): the      *)
(* three assignments are modelled by the slot values they name.  On        *)
(* CPython the first of them already goes through __setattr__, whose       *)
(* dir(self) consults __getattr__ while the _backend slot is still unset,  *)
(* and the constructor ends in RecursionError; the handlers below are the  *)
(* behaviour of a manager whose two slots hold those values.               *)
(***************************************************************************)
EXTENDS Integers, Sequences, FiniteSets, TLC

VARIABLES
    _backends,  \* VCSBackendManager._backends: list of backend types
    _backend,   \* VCSBackendManager._backend: active instance or None
    created,    \* number of backend instances constructed so far
    regLog,     \* history: backend types in the order they were registered
    bind,       \* history: the last execution of the repodir setter
    last,       \* history: the last operation on the manager and its result
    pc,         \* position of _remote_operation / the credential session
    cred,       \* inputs of the remote operation
    proc,       \* the spawned subprocess as pexpect reports it
    io,         \* history: the pexpect calls of the session, in order
    status,     \* return value of git_remote_operation_posix
    outcome,    \* how _remote_operation ended
    call,       \* a call of a parsing or class function and its result
    client,     \* send_args_to_spyder: position, attempt and arguments
    server      \* the running instance: accepting or not, what it received

vars == <<_backends, _backend, created, regLog, bind, last,
          pc, cred, proc, io, status, outcome, call, client, server>>

managerVars == <<_backends, _backend, created, regLog, bind, last>>
sessionVars == <<pc, cred, proc, io, status, outcome>>
callVars == <<call>>
sendVars == <<client, server>>

(***************************************************************************)
(* Bounds                                                                  *)
(***************************************************************************)
MaxBackends == 2    \* longest probe list
MaxInstances == 2   \* backend instances constructed in one behaviour
MaxLines == 3       \* most file lines of one directory in a status output
MaxHeaderLines == 3 \* most labelled lines of a commit record
MaxFiles == 2       \* most changed files of a repository
MaxOutages == 2     \* times the running instance stops accepting

(***************************************************************************)
(* Backend manager (api.py)                                                *)
(***************************************************************************)
BackendTypes == {"GitBackend", "MercurialBackend"}

\* Directories handed to bind; "" is the empty/absent path.
Paths == {"", "/repo", "/repo/pkg"}

\* What constructing a backend type with a path can do.
Outcomes == {"ok", "VCSBackendFail", "VCSError", "Exception"}

\* The absent backend (Python None).
None == [type |-> "NoneType", id |-> 0, path |-> "", repodir |-> "",
         dict |-> {}]

\* Names of the manager type itself, as dir() lists them.
ManagerAttrs == {"_backends", "_backend", "repodir", "register_backend"}

\* Backend operations reached through the manager: a property and a method.
BackendClassAttrs == {"branch", "pull"}

\* git rev-parse --show-toplevel for the directories of Paths.
Toplevel(path) == IF path = "/repo/pkg" THEN "/repo" ELSE path

\* VCSBackendBase.__init__ stores repodir; GitBackend.__init__ replaces it
\* by the root of the working tree.
NewBackend(type, id, path) ==
    [type |-> type, id |-> id, path |-> path,
     repodir |-> IF type = "GitBackend" THEN Toplevel(path) ELSE path,
     dict |-> {"repodir"}]

\* The repodir getter; "None" stands for Python's None.
repodir_getter(b) == IF b = None THEN "None" ELSE b.repodir

\* Text of the error raised when no backend was selected.
NotFound == "Valid backend not found for the given directory"

\* dir(manager): object.__dir__ merges the class names with __dict__, and
\* __dict__ is resolved by __getattr__, that is, on the active backend.
ManagerDir(b) == ManagerAttrs \cup b.dict

\* dir(self._backend); dir(None) has none of the names used here.
BackendDir(b) == IF b = None THEN {} ELSE BackendClassAttrs \cup b.dict

\* try/except/else of the probe loop: what the loop does after one attempt.
ProbeStep_swallow(o) ==
    CASE o = "ok" -> "break"
      [] o = "VCSBackendFail" -> "continue"
      [] o = "VCSError" -> "continue"
      [] OTHER -> "continue"

ProbeStep(o) ==
    CASE o = "ok" -> "break"
      [] o = "VCSBackendFail" -> "continue"
      [] o = "VCSError" -> "continue"
      [] OTHER -> "raise"

\* for backend in self._backends: ... from index i on; tried is the list of
\* constructor calls made so far.
RECURSIVE Probe(_, _, _, _)
Probe(bs, o, i, tried) ==
    IF i > Len(bs)
    THEN [sel |-> 0, tried |-> tried, raised |-> FALSE]
    ELSE LET t == Append(tried, [index |-> i, type |-> bs[i],
                                 outcome |-> o[i]])
             s == ProbeStep(o[i])
         IN  CASE s = "break" -> [sel |-> i, tried |-> t, raised |-> FALSE]
               [] s = "continue" -> Probe(bs, o, i + 1, t)
               [] OTHER -> [sel |-> 0, tried |-> t, raised |-> TRUE]

\* The repodir setter: the new value of _backend, how the call ended and
\* the constructor calls it made.  old is the backend active before.
repodir_setter_keep_on_failure(bs, old, path, o, id) ==
    IF path = ""
    THEN [backend |-> None, result |-> "ok", probes |-> <<>>]
    ELSE LET r == Probe(bs, o, 1, <<>>)
         IN  CASE r.raised ->
                    [backend |-> old, result |-> "Exception",
                     probes |-> r.tried]
               [] r.sel = 0 ->
                    [backend |-> old, result |-> "VCSError",
                     probes |-> r.tried]
               [] OTHER ->
                    [backend |-> NewBackend(bs[r.sel], id, path),
                     result |-> "ok", probes |-> r.tried]

repodir_setter_keep_on_empty(bs, old, path, o, id) ==
    IF path = ""
    THEN [backend |-> old, result |-> "ok", probes |-> <<>>]
    ELSE LET r == Probe(bs, o, 1, <<>>)
         IN  CASE r.raised ->
                    [backend |-> None, result |-> "Exception",
                     probes |-> r.tried]
               [] r.sel = 0 ->
                    [backend |-> None, result |-> "VCSError",
                     probes |-> r.tried]
               [] OTHER ->
                    [backend |-> NewBackend(bs[r.sel], id, path),
                     result |-> "ok", probes |-> r.tried]

repodir_setter(bs, old, path, o, id) ==
    IF path = ""
    THEN [backend |-> None, result |-> "ok", probes |-> <<>>]
    ELSE LET r == Probe(bs, o, 1, <<>>)
         IN  CASE r.raised ->
                    [backend |-> None, result |-> "Exception",
                     probes |-> r.tried]
               [] r.sel = 0 ->
                    [backend |-> None, result |-> "VCSError",
                     probes |-> r.tried]
               [] OTHER ->
                    [backend |-> NewBackend(bs[r.sel], id, path),
                     result |-> "ok", probes |-> r.tried]

\* self._backends.append(backend)
register_backend_prepend(bs, b) == <<b>> \o bs

register_backend(bs, b) == Append(bs, b)

\* The outcomes of one bind are those of the constructor calls it makes: a
\* constructor that is not called has no outcome, its entry is left "ok".
CalledOnly(o, r) == \A i \in (Len(r.probes) + 1)..Len(o) : o[i] = "ok"

\* Sequences of backend types of length at most n.
BackendSeqs(n) == UNION {[1..k -> BackendTypes] : k \in 0..n}

BindRecord(old, path, o, r) ==
    [previous |-> old.id, path |-> path, o |-> o, probes |-> r.probes,
     result |-> r.result,
     error |-> IF r.result = "VCSError" THEN NotFound ELSE "",
     instance |-> r.backend.id]

LastRecord(op, name, result, target) ==
    [op |-> op, name |-> name, result |-> result, target |-> target]

\* No function has been called.
NotCalled == [kind |-> "unset", value |-> "", error |-> <<>>]

NoCall == [fn |-> "", input |-> <<>>, done |-> FALSE, result |-> NotCalled]

CallIdle == call = NoCall

\* send_args_to_spyder has not been called.
SendIdle ==
    /\ client = [pc |-> "idle", x |-> 0, i |-> 1, args |-> <<>>]
    /\ server = [up |-> FALSE, outages |-> 0, received |-> <<>>]

\* The session variables while the manager is exercised.
SessionIdle ==
    /\ pc = "idle"
    /\ cred = [operation |-> "", credentials |-> <<>>, gitname |-> "None",
               windows |-> FALSE]
    /\ proc = [alive |-> FALSE, exitstatus |-> <<>>, signalstatus |-> <<>>,
               before |-> "empty"]
    /\ io = <<>>
    /\ status = [type |-> "unset", value |-> ""]
    /\ outcome = [kind |-> "unset", value |-> "", error |-> <<>>]

\* VCSBackendManager(repodir, *backends): a manager exists only when the
\* bind of the constructor raised nothing.
Init ==
    /\ \E bs \in BackendSeqs(MaxBackends - 1), path \in Paths :
         \E o \in [1..Len(bs) -> Outcomes] :
            LET r == repodir_setter(bs, None, path, o, 1)
            IN  /\ r.result = "ok"
                /\ CalledOnly(o, r)
                /\ _backends = bs
                /\ regLog = bs
                /\ _backend = r.backend
                /\ created = IF r.backend = None THEN 0 ELSE 1
                /\ bind = BindRecord(None, path, o, r)
                /\ last = LastRecord("init", "repodir", "ok", 0)
    /\ SessionIdle
    /\ CallIdle
    /\ SendIdle

\* manager.repodir = path
Bind(path, o) ==
    /\ created < MaxInstances
    /\ LET r == repodir_setter(_backends, _backend, path, o, created + 1)
       IN  /\ CalledOnly(o, r)
           /\ _backend' = r.backend
           /\ created' = IF r.backend = None THEN created ELSE created + 1
           /\ bind' = BindRecord(_backend, path, o, r)
           /\ last' = LastRecord("bind", "repodir", r.result, 0)
    /\ UNCHANGED <<_backends, regLog>>
    /\ UNCHANGED <<sessionVars, callVars, sendVars>>

\* manager.register_backend(b)
RegisterBackend(b) ==
    /\ Len(_backends) < MaxBackends
    /\ _backends' = register_backend(_backends, b)
    /\ regLog' = Append(regLog, b)
    /\ last' = LastRecord("register", "register_backend", "ok", 0)
    /\ UNCHANGED <<_backend, created, bind>>
    /\ UNCHANGED <<sessionVars, callVars, sendVars>>

\* __getattr__: result and target of reading name through the manager.
getattr_result(b, name) ==
    IF name \in BackendDir(b)
    THEN [result |-> "ok", target |-> b.id]
    ELSE [result |-> "AttributeError", target |-> 0]

\* manager.name (property get) and manager.name() (method call)
GetAttr(op, name) ==
    /\ LET r == getattr_result(_backend, name)
       IN  last' = LastRecord(op, name, r.result, r.target)
    /\ UNCHANGED <<_backends, _backend, created, regLog, bind>>
    /\ UNCHANGED <<sessionVars, callVars, sendVars>>

\* __setattr__ for a name of a backend operation.
setattr_result(b, name) ==
    IF name \in ManagerDir(b)
    THEN \* super().__setattr__: the manager has no such slot
         [result |-> "AttributeError", target |-> 0, backend |-> b]
    ELSE IF name \in BackendDir(b)
    THEN [result |-> "ok", target |-> b.id,
          backend |-> IF name = "branch" THEN b
                      ELSE [b EXCEPT !.dict = @ \cup {name}]]
    ELSE [result |-> "noop", target |-> 0, backend |-> b]

\* manager.name = value
SetAttr(name) ==
    /\ LET r == setattr_result(_backend, name)
       IN  /\ last' = LastRecord("set", name, r.result, r.target)
           /\ _backend' = r.backend
    /\ UNCHANGED <<_backends, created, regLog, bind>>
    /\ UNCHANGED <<sessionVars, callVars, sendVars>>

\* __delattr__ for a name of a backend operation.
delattr_result(b, name) ==
    IF name \in ManagerDir(b)
    THEN \* super().__delattr__: the manager has no such slot
         [result |-> "AttributeError", target |-> 0]
    ELSE IF name \in BackendDir(b)
    THEN \* delattr(self, name) re-enters __delattr__ with the same name
         [result |-> "RecursionError", target |-> 0]
    ELSE [result |-> "noop", target |-> 0]

\* del manager.name
DelAttr(name) ==
    /\ LET r == delattr_result(_backend, name)
       IN  last' = LastRecord("del", name, r.result, r.target)
    /\ UNCHANGED <<_backends, _backend, created, regLog, bind>>
    /\ UNCHANGED <<sessionVars, callVars, sendVars>>

Next ==
    \/ \E path \in Paths : \E o \in [1..Len(_backends) -> Outcomes] :
          Bind(path, o)
    \/ \E b \in BackendTypes : RegisterBackend(b)
    \/ \E name \in BackendClassAttrs : GetAttr("get", name)
    \/ GetAttr("call", "pull")
    \/ \E name \in BackendClassAttrs : SetAttr(name)
    \/ \E name \in BackendClassAttrs : DelAttr(name)

Spec == Init /\ [][Next]_vars

(***************************************************************************)
(* Credential session (backend.py) and its errors (errors.py)              *)
(***************************************************************************)
\* The git commands run through _remote_operation (fetch, pull, push).
Operations == {"fetch", "pull", "push"}

\* Output of the subprocess left in proc.before by an expect call.
Messages == {"empty", "denied", "denied_lower", "denied_upper", "not_found",
             "truncated"}

\* The bytes of each message, one character per element.
Text(m) ==
    CASE m = "empty" -> <<>>
      [] m = "denied" ->
           <<"H", "T", "T", "P", " ", "B", "a", "s", "i", "c", ":", " ", "A", "c",
             "c", "e", "s", "s", " ", "d", "e", "n", "i", "e", "d">>
      [] m = "denied_lower" ->
           <<"r", "e", "m", "o", "t", "e", ":", " ", "h", "t", "t", "p", " ", "b",
             "a", "s", "i", "c", ":", " ", "a", "c", "c", "e", "s", "s", " ", "d",
             "e", "n", "i", "e", "d">>
      [] m = "denied_upper" ->
           <<"H", "T", "T", "P", " ", "B", "A", "S", "I", "C", ":", " ", "A", "C",
             "C", "E", "S", "S", " ", "D", "E", "N", "I", "E", "D">>
      [] m = "not_found" ->
           <<"f", "a", "t", "a", "l", ":", " ", "r", "e", "p", "o", "s", "i", "t",
             "o", "r", "y", " ", "n", "o", "t", " ", "f", "o", "u", "n", "d">>
      [] m = "truncated" ->
           <<"H", "T", "T", "P", " ", "B", "a", "s", "i", "c", ":", " ", "A", "c",
             "c", "e", "s", "s", " ", "d", "e", "n", "i", "e">>

\* b"http basic: access denied"
AccessDenied ==
    <<"h", "t", "t", "p", " ", "b", "a", "s", "i", "c", ":", " ", "a", "c",
      "c", "e", "s", "s", " ", "d", "e", "n", "i", "e", "d">>

UpperCase ==
    <<"A", "B", "C", "D", "E", "F", "G", "H", "I", "J", "K", "L", "M", "N",
      "O", "P", "Q", "R", "S", "T", "U", "V", "W", "X", "Y", "Z">>

LowerCase ==
    <<"a", "b", "c", "d", "e", "f", "g", "h", "i", "j", "k", "l", "m", "n",
      "o", "p", "q", "r", "s", "t", "u", "v", "w", "x", "y", "z">>

\* bytes.lower()
lower_identity(m) == m

lower(m) ==
    [i \in 1..Len(m) |->
        IF \E k \in 1..Len(UpperCase) : UpperCase[k] = m[i]
        THEN LowerCase[CHOOSE k \in 1..Len(UpperCase) : UpperCase[k] = m[i]]
        ELSE m[i]]

\* bytes.find(sub): lowest index (from 0) where sub occurs in m, else -1.
find(m, sub) ==
    LET hits == {i \in 0..(Len(m) - Len(sub)) :
                    SubSeq(m, i + 1, i + Len(sub)) = sub}
    IN  IF hits = {} THEN -1
        ELSE CHOOSE i \in hits : \A j \in hits : i <= j

\* Python values returned by git_remote_operation_posix.
StatusTrue == [type |-> "bool", value |-> "True"]
StatusFalse == [type |-> "bool", value |-> "False"]
StatusNone == [type |-> "NoneType", value |-> "None"]
StatusBytes(m) == [type |-> "bytes", value |-> m]
StatusUnset == [type |-> "unset", value |-> ""]

\* proc.exitstatus / proc.signalstatus: <<>> is None, <<n>> the integer n.
Truthy(x) == x # <<>> /\ x[1] # 0

\* Truth value of a Python string or None ("None").
TruthyStr(x) == x # "" /\ x # "None"

\* dict.get(key, default)
Get(d, key, default) == IF key \in DOMAIN d THEN d[key] ELSE default

\* The credentials dictionaries: any subset of the two keys git requires.
CredentialsDicts ==
    {d \in UNION {[D -> {"", "alice", "secret"}] :
                     D \in SUBSET {"username", "password"}} :
        /\ Get(d, "username", "") \in {"", "alice"}
        /\ Get(d, "password", "") \in {"", "secret"}}

\* GitBackend.REQUIRED_CREDENTIALS
REQUIRED_CREDENTIALS == <<"username", "password">>

\* username of _remote_operation:
\* credentials.get("username", "") or get_git_username(repodir) or ""
SessionUsername(c) ==
    IF TruthyStr(Get(c.credentials, "username", ""))
    THEN Get(c.credentials, "username", "")
    ELSE IF TruthyStr(c.gitname) THEN c.gitname ELSE ""

\* password handed to the session: credentials.get("password", "")
SessionPassword(c) == Get(c.credentials, "password", "")

\* Lines 738-751: what follows the first expect; i is the index of the
\* matched pattern (0 Username, 1 EOF, 2 TIMEOUT), alive is proc.isalive().
after_username_expect(i, alive) ==
    IF i = 0 THEN "sendline"
    ELSE IF ~alive THEN "return"
    ELSE "continue"

\* Lines 743-751: the value returned when the subprocess ended unprompted.
classify_unprompted_ignoring_signal(p) ==
    IF Truthy(p.exitstatus) THEN StatusBytes(p.before)
    ELSE StatusTrue

classify_unprompted(p) ==
    IF Truthy(p.signalstatus) THEN StatusNone
    ELSE IF Truthy(p.exitstatus) THEN StatusBytes(p.before)
    ELSE StatusTrue

\* Lines 763-770: the value returned after the password was sent.
classify_after_password_case_sensitive(p) ==
    IF ~(Truthy(p.exitstatus) \/ Truthy(p.signalstatus)) THEN StatusTrue
    ELSE IF find(lower_identity(Text(p.before)), AccessDenied) # -1
    THEN StatusFalse
    ELSE StatusBytes(p.before)

classify_after_password(p) ==
    IF ~(Truthy(p.exitstatus) \/ Truthy(p.signalstatus)) THEN StatusTrue
    ELSE IF find(lower(Text(p.before)), AccessDenied) # -1 THEN StatusFalse
    ELSE StatusBytes(p.before)

\* One pexpect call of the session, for the history: expect(arg) with the
\* index it returned and the state of the subprocess, or sendline(data)
\* in answer to the prompt arg.
Call(name, arg, ret, alive, data) ==
    [call |-> name, arg |-> arg, ret |-> ret, alive |-> alive,
     data |-> data]

\* An exception or a returned value of _remote_operation.
Error(class, error, method, username, password, required) ==
    [class |-> class, error |-> error, method |-> method,
     username |-> username, password |-> password,
     required_credentials |-> required]

\* VCSAuthError(*args, **kwargs): required_credentials is the first
\* positional parameter and has no default.
VCSAuthError_init(args, kwargs) ==
    IF Len(args) = 0
    THEN Error("TypeError",
               <<"missing 1 required positional argument",
                 "required_credentials">>,
               "None", "None", "None", <<>>)
    ELSE Error("VCSAuthError", Get(kwargs, "error", "None"), "None",
               Get(kwargs, "username", "None"),
               Get(kwargs, "password", "None"), args[1])

\* VCSUnexpectedError(method=..., error=...)
VCSUnexpectedError_init(method, error) ==
    Error("VCSUnexpectedError", error, method, "None", "None", <<>>)

\* VCSBackendFail raised by _run when the program could not be run.
VCSBackendFail_init(program) ==
    Error("VCSBackendFail", <<"programs", program>>, "None", "None", "None",
          <<>>)

Return(value) == [kind |-> "return", value |-> value, error |-> <<>>]
Raise(error) == [kind |-> "raise", value |-> "", error |-> error]

\* self._run(args)[0]: retcode is <<>> when git could not be run.
RetCodes == {<<>>, <<0>>, <<1>>}

\* Lines 453-461: the remote operation on Windows.
remote_operation_windows(retcode) ==
    IF retcode = <<>> THEN Raise(VCSBackendFail_init("git"))
    ELSE Return(IF retcode[1] = 0 THEN "True" ELSE "False")

\* Lines 473-497: what _remote_operation does with the session's status;
\* retcode is the exit code of `git config --local user.name`.
remote_operation_result(c, st, retcode) ==
    IF st = StatusTrue
    THEN LET cred_username == Get(c.credentials, "username", "")
         IN  IF /\ TruthyStr(cred_username)
                /\ ~TruthyStr(Get(c.credentials, "password", ""))
                /\ c.gitname # cred_username
             THEN IF retcode = <<>> THEN Raise(VCSBackendFail_init("git"))
                  ELSE Return(IF retcode[1] = 0 THEN "0" ELSE "1")
             ELSE Return("True")
    ELSE IF st = StatusFalse
    THEN Raise(VCSAuthError_init(<<>>,
                  [username |-> SessionUsername(c),
                   password |-> Get(c.credentials, "password", "None"),
                   error |-> "Wrong credentials"]))
    ELSE Raise(VCSUnexpectedError_init(c.operation,
                  <<"Failed to {} from remote", c.operation>>))

\* The manager variables while a remote operation is exercised.
ManagerIdle ==
    /\ _backends = <<>>
    /\ _backend = None
    /\ created = 0
    /\ regLog = <<>>
    /\ bind = BindRecord(None, "", <<>>,
                         [backend |-> None, result |-> "ok",
                          probes |-> <<>>])
    /\ last = LastRecord("init", "repodir", "ok", 0)

\* A backend on which fetch(sync=True), pull or push has just been called.
SessionInit ==
    /\ ManagerIdle
    /\ CallIdle
    /\ SendIdle
    /\ pc = "start"
    /\ \E op \in Operations, d \in CredentialsDicts,
          g \in {"None", "alice", "bob"}, w \in BOOLEAN :
          cred = [operation |-> op, credentials |-> d, gitname |-> g,
                  windows |-> w]
    /\ proc = [alive |-> FALSE, exitstatus |-> <<>>, signalstatus |-> <<>>,
               before |-> "empty"]
    /\ io = <<>>
    /\ status = StatusUnset
    /\ outcome = [kind |-> "unset", value |-> "", error |-> <<>>]

\* _remote_operation on Windows: one non-interactive run.
RemoteWindows(retcode) ==
    /\ pc = "start"
    /\ cred.windows
    /\ outcome' = remote_operation_windows(retcode)
    /\ pc' = "done"
    /\ UNCHANGED <<cred, proc, io, status>>
    /\ UNCHANGED <<managerVars, callVars, sendVars>>

\* Lines 734-736: find git and spawn the subprocess.
Spawn(found) ==
    /\ pc = "start"
    /\ ~cred.windows
    /\ IF found
       THEN /\ proc' = [proc EXCEPT !.alive = TRUE]
            /\ pc' = "expect_username"
            /\ UNCHANGED status
       ELSE /\ status' = StatusNone
            /\ pc' = "returned"
            /\ UNCHANGED proc
    /\ UNCHANGED <<cred, io, outcome>>
    /\ UNCHANGED <<managerVars, callVars, sendVars>>

\* Lines 737-751: expect(["Username for .+:", EOF, TIMEOUT]); EOF is read
\* from the terminal of a subprocess that has ended.
ExpectUsername(i, m) ==
    /\ pc = "expect_username"
    /\ i = 1 => ~proc.alive
    /\ LET p == [proc EXCEPT !.before = m]
           a == after_username_expect(i, proc.alive)
           e == Call("expect", "Username", i, proc.alive, "")
       IN  /\ proc' = p
           /\ CASE a = "sendline" ->
                     /\ io' = io \o <<e, Call("sendline", "Username", 0,
                                 proc.alive, SessionUsername(cred))>>
                     /\ pc' = "expect_password"
                     /\ UNCHANGED status
                [] a = "return" ->
                     /\ io' = Append(io, e)
                     /\ status' = classify_unprompted(p)
                     /\ pc' = "returned"
                [] OTHER ->
                     /\ io' = Append(io, e)
                     /\ pc' = "expect_password"
                     /\ UNCHANGED status
    /\ UNCHANGED <<cred, outcome>>
    /\ UNCHANGED <<managerVars, callVars, sendVars>>

\* Lines 753-757: expect(["Password for .+:", EOF, TIMEOUT]).
ExpectPassword(i, m) ==
    /\ pc = "expect_password"
    /\ i = 1 => ~proc.alive
    /\ proc' = [proc EXCEPT !.before = m]
    /\ LET e == Call("expect", "Password", i, proc.alive, "")
       IN  IF i = 0
           THEN /\ io' = io \o <<e, Call("sendline", "Password", 0,
                                         proc.alive, SessionPassword(cred))>>
                /\ pc' = "expect_eof"
                /\ UNCHANGED status
           ELSE /\ io' = Append(io, e)
                /\ status' = StatusNone
                /\ pc' = "returned"
    /\ UNCHANGED <<cred, outcome>>
    /\ UNCHANGED <<managerVars, callVars, sendVars>>

\* Lines 759-770 when the subprocess has ended: expect([EOF, TIMEOUT]) with
\* i = 0 for EOF and 1 for TIMEOUT, then the classification.
\* Lines 759-761 when it is still alive: go on to proc.wait().
ExpectEnd(i, m) ==
    /\ pc = "expect_eof"
    /\ i = 0 => ~proc.alive
    /\ LET p == [proc EXCEPT !.before = m]
       IN  /\ proc' = p
           /\ io' = Append(io, Call("expect", "EOF", i, proc.alive, ""))
           /\ IF proc.alive
              THEN /\ pc' = "wait"
                   /\ UNCHANGED status
              ELSE /\ status' = classify_after_password(p)
                   /\ pc' = "returned"
    /\ UNCHANGED <<cred, outcome>>
    /\ UNCHANGED <<managerVars, callVars, sendVars>>

\* Lines 761-770: proc.wait() returns once the subprocess has ended.
Wait ==
    /\ pc = "wait"
    /\ ~proc.alive
    /\ io' = Append(io, Call("wait", "", 0, FALSE, ""))
    /\ status' = classify_after_password(proc)
    /\ pc' = "returned"
    /\ UNCHANGED <<cred, proc, outcome>>
    /\ UNCHANGED <<managerVars, callVars, sendVars>>

\* The subprocess ends, with an exit code or killed by a signal.
ProcExit(exitstatus, signalstatus) ==
    /\ pc \in {"expect_username", "expect_password", "expect_eof", "wait"}
    /\ proc.alive
    /\ proc' = [proc EXCEPT !.alive = FALSE, !.exitstatus = exitstatus,
                            !.signalstatus = signalstatus]
    /\ UNCHANGED <<pc, cred, io, status, outcome>>
    /\ UNCHANGED <<managerVars, callVars, sendVars>>

\* Lines 473-497: _remote_operation after the session returned.
RemoteFinish(retcode) ==
    /\ pc = "returned"
    /\ outcome' = remote_operation_result(cred, status, retcode)
    /\ pc' = "done"
    /\ UNCHANGED <<cred, proc, io, status>>
    /\ UNCHANGED <<managerVars, callVars, sendVars>>

\* The steps of the operation itself, as opposed to those of the subprocess.
SessionStep ==
    \/ \E retcode \in RetCodes : RemoteWindows(retcode)
    \/ \E found \in BOOLEAN : Spawn(found)
    \/ \E i \in 0..2, m \in Messages : ExpectUsername(i, m)
    \/ \E i \in 0..2, m \in Messages : ExpectPassword(i, m)
    \/ \E i \in 0..1, m \in Messages : ExpectEnd(i, m)
    \/ Wait
    \/ \E retcode \in RetCodes : RemoteFinish(retcode)

SessionNext ==
    \/ SessionStep
    \/ \E c \in {0, 1} : ProcExit(<<c>>, <<>>)
    \/ ProcExit(<<>>, <<9>>)

SessionSpec == SessionInit /\ [][SessionNext]_vars

\* Every pexpect call and every local git run returns or times out, the
\* subprocess itself is under no obligation to end.
SessionLiveSpec == SessionSpec /\ WF_vars(SessionStep)

(***************************************************************************)
(* Text, as Python handles it: a str or bytes value is the sequence of its *)
(* characters.  An optional value is <<>> (None) or <<v>>.                 *)
(***************************************************************************)

\* str.upper()
upper(m) ==
    [i \in 1..Len(m) |->
        IF \E k \in 1..Len(LowerCase) : LowerCase[k] = m[i]
        THEN UpperCase[CHOOSE k \in 1..Len(LowerCase) : LowerCase[k] = m[i]]
        ELSE m[i]]

\* str.startswith(prefix)
startswith(m, prefix) ==
    Len(prefix) <= Len(m) /\ SubSeq(m, 1, Len(prefix)) = prefix

\* The characters str.strip() and str.lstrip() remove.
Whitespace == {" ", "\t", "\n"}

RECURSIVE lstrip(_)
lstrip(m) ==
    IF m # <<>> /\ Head(m) \in Whitespace THEN lstrip(Tail(m)) ELSE m

RECURSIVE rstrip(_)
rstrip(m) ==
    IF m # <<>> /\ m[Len(m)] \in Whitespace
    THEN rstrip(SubSeq(m, 1, Len(m) - 1))
    ELSE m

strip(m) == rstrip(lstrip(m))

\* str.splitlines(): the lines without their line ends; no last empty line.
RECURSIVE splitlines(_)
splitlines(m) ==
    IF m = <<>> THEN <<>>
    ELSE LET i == find(m, <<"\n">>)
         IN  IF i = -1 THEN <<m>>
             ELSE <<SubSeq(m, 1, i)>> \o splitlines(SubSeq(m, i + 2, Len(m)))

\* m[i:] with a Python index i >= 0
From(m, i) == SubSeq(m, i + 1, Len(m))

\* m[:i]
UpTo(m, i) == SubSeq(m, 1, IF i < Len(m) THEN i ELSE Len(m))

DecimalDigits == <<"0", "1", "2", "3", "4", "5", "6", "7", "8", "9">>

IsDigit(c) == \E k \in 1..Len(DecimalDigits) : DecimalDigits[k] = c

\* int(m) for a string of decimal digits
RECURSIVE int(_)
int(m) ==
    IF m = <<>> THEN 0
    ELSE int(SubSeq(m, 1, Len(m) - 1)) * Len(DecimalDigits)
         + (CHOOSE k \in 1..Len(DecimalDigits) :
                DecimalDigits[k] = m[Len(m)]) - 1

\* str(n) for n >= 0
RECURSIVE str(_)
str(n) ==
    IF n < Len(DecimalDigits) THEN <<DecimalDigits[n + 1]>>
    ELSE str(n \div Len(DecimalDigits))
         \o <<DecimalDigits[(n % Len(DecimalDigits)) + 1]>>

\* m.rsplit(" ", 1)[-1]: what follows the last space
RECURSIVE rsplit_last(_)
rsplit_last(m) ==
    IF m = <<>> \/ m[Len(m)] = " " THEN <<>>
    ELSE Append(rsplit_last(SubSeq(m, 1, Len(m) - 1)), m[Len(m)])

(***************************************************************************)
(* re.match: a backtracking matcher over the constructs that the header    *)
(* pattern of get_git_status is written in.  Alternatives are tried in the *)
(* order the re module tries them; the first complete match is the result. *)
(***************************************************************************)
Lit(text) == [op |-> "lit", text |-> text, group |-> 0, sub |-> <<>>,
              alt |-> <<>>]
AnyLazy == [op |-> "lazy", text |-> <<>>, group |-> 0, sub |-> <<>>,
            alt |-> <<>>]
Digits == [op |-> "digits", text |-> <<>>, group |-> 0, sub |-> <<>>,
           alt |-> <<>>]
Open(g) == [op |-> "open", text |-> <<>>, group |-> g, sub |-> <<>>,
            alt |-> <<>>]
Close(g) == [op |-> "close", text |-> <<>>, group |-> g, sub |-> <<>>,
             alt |-> <<>>]
Opt(sub) == [op |-> "opt", text |-> <<>>, group |-> 0, sub |-> sub,
             alt |-> <<>>]
Alt(a, b) == [op |-> "alt", text |-> <<>>, group |-> 0, sub |-> a,
              alt |-> b]
EndOfLine == [op |-> "end", text |-> <<>>, group |-> 0, sub |-> <<>>,
              alt |-> <<>>]

NoMatch == [ok |-> FALSE, caps |-> <<>>]

\* Number of digits at position p of m.
RECURSIVE DigitRun(_, _)
DigitRun(m, p) ==
    IF p <= Len(m) /\ IsDigit(m[p]) THEN 1 + DigitRun(m, p + 1) ELSE 0

RECURSIVE match(_, _, _, _)
RECURSIVE match_lazy(_, _, _, _, _)
RECURSIVE match_digits(_, _, _, _, _)

\* The rest of the pattern, prog, against m from position p on; caps[g] is
\* <<>> for a group that took no part, <<b, e>> for m[b..e-1].
match(prog, m, p, caps) ==
    IF Len(prog) = 0 THEN [ok |-> TRUE, caps |-> caps]
    ELSE LET node == Head(prog)
             rest == Tail(prog)
         IN  CASE node.op = "lit" ->
                    IF /\ p + Len(node.text) - 1 <= Len(m)
                       /\ SubSeq(m, p, p + Len(node.text) - 1) = node.text
                    THEN match(rest, m, p + Len(node.text), caps)
                    ELSE NoMatch
               [] node.op = "end" ->
                    IF p = Len(m) + 1 THEN match(rest, m, p, caps)
                    ELSE NoMatch
               [] node.op = "open" ->
                    match(rest, m, p, [caps EXCEPT ![node.group] = <<p>>])
               [] node.op = "close" ->
                    match(rest, m, p,
                          [caps EXCEPT ![node.group] = <<@[1], p>>])
               [] node.op = "opt" ->
                    LET r == match(node.sub \o rest, m, p, caps)
                    IN  IF r.ok THEN r ELSE match(rest, m, p, caps)
               [] node.op = "alt" ->
                    LET r == match(node.sub \o rest, m, p, caps)
                    IN  IF r.ok THEN r
                        ELSE match(node.alt \o rest, m, p, caps)
               [] node.op = "lazy" -> match_lazy(rest, m, p, 1, caps)
               [] node.op = "digits" ->
                    match_digits(rest, m, p, DigitRun(m, p), caps)

\* .+? : one character, then one more each time the rest fails.
match_lazy(rest, m, p, k, caps) ==
    IF p + k - 1 > Len(m) \/ m[p + k - 1] = "\n" THEN NoMatch
    ELSE LET r == match(rest, m, p + k, caps)
         IN  IF r.ok THEN r ELSE match_lazy(rest, m, p, k + 1, caps)

\* \d+ : all the digits there are, then one fewer each time the rest fails.
match_digits(rest, m, p, k, caps) ==
    IF k = 0 THEN NoMatch
    ELSE LET r == match(rest, m, p + k, caps)
         IN  IF r.ok THEN r ELSE match_digits(rest, m, p, k - 1, caps)

\* match.group(g): None for a group that took no part in the match.
group(r, m, g) ==
    IF Len(r.caps[g]) = 2
    THEN <<SubSeq(m, r.caps[g][1], r.caps[g][2] - 1)>>
    ELSE <<>>

\* ^## (.+?)(?:\.\.\.(.+?))?
\*    (?: \[(.+? \d+)(?:, )?(.+? \d+)?]|(?: \((.+?)\)))?$
HeaderPattern ==
    <<Lit(<<"#", "#", " ">>), Open(1), AnyLazy, Close(1),
      Opt(<<Lit(<<".", ".", ".">>), Open(2), AnyLazy, Close(2)>>),
      Opt(<<Alt(<<Lit(<<" ", "[">>),
                  Open(3), AnyLazy, Lit(<<" ">>), Digits, Close(3),
                  Opt(<<Lit(<<",", " ">>)>>),
                  Opt(<<Open(4), AnyLazy, Lit(<<" ">>), Digits, Close(4)>>),
                  Lit(<<"]">>)>>,
                <<Lit(<<" ", "(">>), Open(5), AnyLazy, Close(5),
                  Lit(<<")">>)>>)>>),
      EndOfLine>>

re_match(m) == match(HeaderPattern, m, 1, [g \in 1..5 |-> <<>>])

(***************************************************************************)
(* ChangedStatus (api.py)                                                  *)
(***************************************************************************)
UNCHANGED_ == <<"U", "N", "C", "H", "A", "N", "G", "E", "D">>
ADDED == <<"A", "D", "D", "E", "D">>
REMOVED == <<"R", "E", "M", "O", "V", "E", "D">>
MODIFIED == <<"M", "O", "D", "I", "F", "I", "E", "D">>
EDITED == <<"E", "D", "I", "T", "E", "D">>
RENAMED == <<"R", "E", "N", "A", "M", "E", "D">>
COPIED == <<"C", "O", "P", "I", "E", "D">>
IGNORED == <<"I", "G", "N", "O", "R", "E", "D">>
UNKNOWN == <<"U", "N", "K", "N", "O", "W", "N">>

\* The int attributes of the class in the order vars(cls) lists them.
ChangedStatus ==
    <<[name |-> UNCHANGED_, val |-> 0], [name |-> ADDED, val |-> 1],
      [name |-> REMOVED, val |-> 2], [name |-> MODIFIED, val |-> 3],
      [name |-> EDITED, val |-> 3], [name |-> RENAMED, val |-> 10],
      [name |-> COPIED, val |-> 11], [name |-> IGNORED, val |-> 98],
      [name |-> UNKNOWN, val |-> 99]>>

AttributeError ==
    Error("AttributeError", "Given state does not exists", "None", "None",
          "None", <<>>)

\* ChangedStatus.from_string(state)
from_string(state) ==
    LET hits == {k \in 1..Len(ChangedStatus) :
                    ChangedStatus[k].name = upper(state)}
    IN  IF hits # {}
        THEN Return(ChangedStatus[CHOOSE k \in hits : TRUE].val)
        ELSE Raise(AttributeError)

\* to_string with `break` after the first attribute of that value left
\* out: the last one wins.
to_string_last(state) ==
    LET hits == {k \in 1..Len(ChangedStatus) : ChangedStatus[k].val = state}
    IN  IF hits # {}
        THEN Return(lower(ChangedStatus[
                        CHOOSE k \in hits : \A j \in hits : j <= k].name))
        ELSE Raise(AttributeError)

\* ChangedStatus.to_string(state): the first attribute of that value.
to_string(state) ==
    LET hits == {k \in 1..Len(ChangedStatus) : ChangedStatus[k].val = state}
    IN  IF hits # {}
        THEN Return(lower(ChangedStatus[
                        CHOOSE k \in hits : \A j \in hits : k <= j].name))
        ELSE Raise(AttributeError)

(***************************************************************************)
(* git status parsing (backend.py)                                         *)
(***************************************************************************)
_GIT_STATUS_MAP ==
    (<<" ">> :> UNCHANGED_) @@ (<<"A">> :> ADDED) @@ (<<"D">> :> REMOVED)
    @@ (<<"M">> :> MODIFIED) @@ (<<"R">> :> REMOVED) @@ (<<"C">> :> COPIED)
    @@ (<<"?", "?">> :> ADDED)

IndexError ==
    Error("IndexError", "string index out of range", "None", "None", "None",
          <<>>)

\* One turn of the loop over the lines (backend.py 626-641): the records
\* it appends to changes, each (path, staged, unstaged).
status_line(line) ==
    IF startswith(line, <<"?", "?">>)
    THEN Return(<<<<From(line, 3), UNCHANGED_, _GIT_STATUS_MAP[<<"?", "?">>]>>>>)
    ELSE IF \E k \in 1..Len(UpTo(line, 2)) : line[k] \in {"R", "C"}
    THEN Return(<<>>)
    ELSE IF Len(line) < 2
    THEN Raise(IndexError)
    ELSE Return(<<<<From(line, 3),
                    Get(_GIT_STATUS_MAP, <<line[1]>>, UNKNOWN),
                    Get(_GIT_STATUS_MAP, <<line[2]>>, UNKNOWN)>>>>)

RECURSIVE status_lines(_)
status_lines(lines) ==
    IF lines = <<>> THEN Return(<<>>)
    ELSE LET h == status_line(Head(lines))
         IN  IF h.kind = "raise" THEN h
             ELSE LET t == status_lines(Tail(lines))
                  IN  IF t.kind = "raise" THEN t
                      ELSE Return(h.value \o t.value)

\* sum_up with the second area left as the first line has it.
RECURSIVE sum_up_one_area(_, _)
sum_up_one_area(final_change, changes) ==
    IF changes = <<>> THEN final_change
    ELSE LET change == Head(changes)
         IN  sum_up_one_area(
                 <<final_change[1],
                   IF MODIFIED # final_change[2]
                      /\ final_change[2] # change[2]
                   THEN MODIFIED ELSE final_change[2],
                   final_change[3]>>,
                 Tail(changes))

\* Lines 646-653: the loop that sums the changes up into final_change.
RECURSIVE sum_up(_, _)
sum_up(final_change, changes) ==
    IF changes = <<>> THEN final_change
    ELSE LET change == Head(changes)
         IN  sum_up(
                 <<final_change[1],
                   IF MODIFIED # final_change[2]
                      /\ final_change[2] # change[2]
                   THEN MODIFIED ELSE final_change[2],
                   IF MODIFIED # final_change[3]
                      /\ final_change[3] # change[3]
                   THEN MODIFIED ELSE final_change[3]>>,
                 Tail(changes))

\* The pathspec of a whole repository, "."
Dot == <<".">>

\* final_changes for whatever pathspec was given.
final_changes_any_pathspec(pathspec, changes) ==
    IF Len(changes) > 1
    THEN <<sum_up(<<pathspec, changes[1][2], changes[1][3]>>, changes)>>
    ELSE changes

\* Lines 643-654: the changes below a pathspec that is not ".", summed up.
final_changes(pathspec, changes) ==
    IF pathspec # Dot /\ Len(changes) > 1
    THEN <<sum_up(<<pathspec, changes[1][2], changes[1][3]>>, changes)>>
    ELSE changes

\* Lines 616-623: one of the groups 3 and 4 applied to (behind, ahead).
count_marker(g, counts) ==
    IF g = <<>> THEN counts
    ELSE IF startswith(g[1], <<"b", "e", "h", "i", "n", "d">>)
    THEN <<int(rsplit_last(g[1])), counts[2]>>
    ELSE IF startswith(g[1], <<"a", "h", "e", "a", "d">>)
    THEN <<counts[1], int(rsplit_last(g[1]))>>
    ELSE counts

\* (None, None, None)
NoStatus == [branch |-> <<>>, counts |-> <<>>, changes |-> <<>>]

\* get_git_status(repopath, pathspec): output and returncode are what
\* `git status -b -uall --porcelain=v1` wrote and returned.
get_git_status(output, pathspec, returncode) ==
    IF returncode # 0 THEN Return(NoStatus)
    ELSE LET lines == splitlines(strip(output))
         IN  IF lines = <<>> THEN Return(NoStatus)
             ELSE LET m == re_match(lines[1])
                      rest == IF m.ok THEN Tail(lines) ELSE lines
                      parsed == status_lines(rest)
                      changes == parsed.value
                  IN  IF parsed.kind = "raise" THEN parsed
                      ELSE Return(
                        [branch |->
                            <<IF m.ok
                              THEN <<group(m, lines[1], 1),
                                     group(m, lines[1], 2)>>
                              ELSE <<<<>>, <<>>>>>>,
                         counts |->
                            <<IF m.ok
                              THEN count_marker(group(m, lines[1], 4),
                                     count_marker(group(m, lines[1], 3),
                                                  <<0, 0>>))
                              ELSE <<0, 0>>>>,
                         changes |->
                            <<final_changes(pathspec, changes)>>])

(***************************************************************************)
(* GitBackend.changes and _parse_change_record (backend.py)                *)
(***************************************************************************)
ChunkSize == 16384

SyntaxError ==
    Error("SyntaxError", "unterminated string literal", "None", "None",
          "None", <<>>)

\* The escape sequences of a Python string literal that git writes in a
\* quoted path, and the character each stands for.
Escapes ==
    ("\\" :> "\\") @@ ("'" :> "'") @@ ("\"" :> "\"") @@ ("n" :> "\n")
    @@ ("t" :> "\t")

\* ast.literal_eval("'" + chunk + "'") for a chunk of path characters: a
\* quote that no backslash escapes ends the literal early, a backslash in
\* the last place escapes the closing quote, and both leave a string that
\* is never closed; a backslash before a character that starts no escape
\* sequence stays as it is.
RECURSIVE literal_eval(_)
literal_eval(chunk) ==
    IF chunk = <<>> THEN Return(<<>>)
    ELSE IF Head(chunk) \in {"'", "\n"} THEN Raise(SyntaxError)
    ELSE IF Head(chunk) = "\\"
    THEN IF Len(chunk) = 1 THEN Raise(SyntaxError)
         ELSE LET t == literal_eval(SubSeq(chunk, 3, Len(chunk)))
              IN  IF t.kind = "raise" THEN t
                  ELSE Return((IF chunk[2] \in DOMAIN Escapes
                               THEN <<Escapes[chunk[2]]>>
                               ELSE <<"\\", chunk[2]>>) \o t.value)
    ELSE LET t == literal_eval(Tail(chunk))
         IN  IF t.kind = "raise" THEN t
             ELSE Return(<<Head(chunk)>> \o t.value)

\* Lines 395-401: the path, decoded chunk by chunk from index i on.
RECURSIVE decode_chunks(_, _)
decode_chunks(unescaped_path, i) ==
    IF i >= Len(unescaped_path) THEN Return(<<>>)
    ELSE LET h == literal_eval(SubSeq(unescaped_path, i + 1,
                        IF i + ChunkSize < Len(unescaped_path)
                        THEN i + ChunkSize ELSE Len(unescaped_path)))
         IN  IF h.kind = "raise" THEN h
             ELSE LET t == decode_chunks(unescaped_path, i + ChunkSize)
                  IN  IF t.kind = "raise" THEN t
                      ELSE Return(h.value \o t.value)

\* dict(path=..., kind=..., staged=...)
FileChange(path, kind, staged) ==
    [path |-> path, kind |-> kind, staged |-> staged]

\* _parse_change_record with the two states of the record exchanged.
_parse_change_record_swapped(record) ==
    LET staged == from_string(record[3]).value
        unstaged == from_string(record[2]).value
        unescaped_path ==
            IF /\ Len(record[1]) > 3
               /\ record[1][1] = record[1][Len(record[1])]
               /\ record[1][Len(record[1])] \in {"'", "\""}
            THEN SubSeq(record[1], 2, Len(record[1]) - 1)
            ELSE record[1]
        path == decode_chunks(unescaped_path, 0)
    IN  IF Len(record) # 3 \/ path.kind = "raise" THEN <<>>
        ELSE (IF unstaged # ChangedStatus[1].val
              THEN <<FileChange(path.value, unstaged, FALSE)>> ELSE <<>>)
             \o (IF staged # ChangedStatus[1].val
                 THEN <<FileChange(path.value, staged, TRUE)>> ELSE <<>>)

\* GitBackend._parse_change_record(record)
_parse_change_record(record) ==
    LET staged == from_string(record[2]).value
        unstaged == from_string(record[3]).value
        unescaped_path ==
            IF /\ Len(record[1]) > 3
               /\ record[1][1] = record[1][Len(record[1])]
               /\ record[1][Len(record[1])] \in {"'", "\""}
            THEN SubSeq(record[1], 2, Len(record[1]) - 1)
            ELSE record[1]
        path == decode_chunks(unescaped_path, 0)
    IN  IF Len(record) # 3 \/ path.kind = "raise" THEN <<>>
        ELSE (IF unstaged # ChangedStatus[1].val
              THEN <<FileChange(path.value, unstaged, FALSE)>> ELSE <<>>)
             \o (IF staged # ChangedStatus[1].val
                 THEN <<FileChange(path.value, staged, TRUE)>> ELSE <<>>)

RECURSIVE extend(_)
extend(filestates) ==
    IF filestates = <<>> THEN <<>>
    ELSE _parse_change_record(Head(filestates)) \o extend(Tail(filestates))

\* VCSPropertyError(name, operation, error=...)
VCSPropertyError_init(name, operation, error) ==
    Error("VCSPropertyError", error, <<name, operation>>, "None", "None",
          <<>>)

\* GitBackend.changes (backend.py 143-156)
changes_getter(output, returncode) ==
    LET st == get_git_status(output, Dot, returncode)
    IN  IF st.kind = "raise" THEN st
        ELSE IF st.value.changes = <<>>
        THEN Raise(VCSPropertyError_init("changes", "get",
                                         "Failed to get git changes"))
        ELSE Return(extend(st.value.changes[1]))

(***************************************************************************)
(* Commit records (backend.py)                                             *)
(***************************************************************************)

\* The keys of a commit record, as text.
Key(name) ==
    CASE name = "id" -> <<"i", "d">>
      [] name = "title" -> <<"t", "i", "t", "l", "e">>
      [] name = "description" ->
           <<"d", "e", "s", "c", "r", "i", "p", "t", "i", "o", "n">>
      [] name = "content" -> <<"c", "o", "n", "t", "e", "n", "t">>
      [] name = "author_username" ->
           <<"a", "u", "t", "h", "o", "r", "_", "u", "s", "e", "r", "n",
             "a", "m", "e">>
      [] name = "author_email" ->
           <<"a", "u", "t", "h", "o", "r", "_", "e", "m", "a", "i", "l">>
      [] name = "commit_date" ->
           <<"c", "o", "m", "m", "i", "t", "_", "d", "a", "t", "e">>

\* get_last_commits.extra["attrs"]
attrs ==
    <<Key("id"), Key("title"), Key("description"), Key("content"),
      Key("author_username"), Key("author_email"), Key("commit_date")>>

\* b"\ndescription:\n"
DescriptionMarker == <<"\n">> \o Key("description") \o <<":", "\n">>

\* The byte b"\x00"
NUL == "\\x00"

\* bytes.strip(b"\x00")
RECURSIVE strip_nul(_)
strip_nul(m) ==
    IF m # <<>> /\ Head(m) = NUL THEN strip_nul(Tail(m))
    ELSE IF m # <<>> /\ m[Len(m)] = NUL
    THEN strip_nul(SubSeq(m, 1, Len(m) - 1))
    ELSE m

\* str.isdigit()
isdigit(m) == m # <<>> /\ \A k \in 1..Len(m) : IsDigit(m[k])

\* datetime.fromtimestamp(int(m)).astimezone(timezone.utc): the instant
\* int(m), in UTC.
fromtimestamp(m) == <<"utc">> \o str(int(m))

\* keys.remove(keys[k])
Remove(keys, k) == SubSeq(keys, 1, k - 1) \o SubSeq(keys, k + 1, Len(keys))

\* Lines 428-437: the loop over the lines before the description.
RECURSIVE parse_header_lines(_, _, _)
parse_header_lines(lines, keys, history) ==
    IF lines = <<>> THEN history
    ELSE LET line == Head(lines)
             hits == {k \in 1..Len(keys) :
                         startswith(line, keys[k] \o <<":">>)}
         IN  IF line = <<>> \/ hits = {}
             THEN parse_header_lines(Tail(lines), keys, history)
             ELSE LET k == CHOOSE k \in hits : \A j \in hits : k <= j
                  IN  parse_header_lines(
                          Tail(lines), Remove(keys, k),
                          (keys[k] :> From(line, Len(keys[k]) + 1))
                              @@ history)

\* Lines 439-446: content and commit_date of the finished record.
finish_history(history) ==
    LET with_content ==
            (Key("content") :>
                (Get(history, Key("title"), <<>>) \o <<"\n">>
                 \o Get(history, Key("description"), <<>>)))
            @@ history
    IN  IF isdigit(Get(with_content, Key("commit_date"), <<>>))
        THEN (Key("commit_date") :>
                  fromtimestamp(with_content[Key("commit_date")]))
             @@ with_content
        ELSE [k \in DOMAIN with_content \ {Key("commit_date")} |->
                 with_content[k]]

\* _parse_history_record with the description left in the record whose
\* lines are matched.
_parse_history_record_whole(record) ==
    LET stripped == lstrip(record)
        keys == SelectSeq(attrs, LAMBDA a : a # Key("description"))
        i == find(stripped, DescriptionMarker)
        description ==
            IF i # -1
            THEN strip_nul(From(stripped, i + Len(DescriptionMarker)))
            ELSE <<>>
        head == stripped
    IN  IF stripped = <<>> THEN <<>>
        ELSE finish_history(
                 parse_header_lines(splitlines(head), keys,
                                    Key("description") :> description))

\* GitBackend._parse_history_record(record); {} is <<>>.
_parse_history_record(record) ==
    LET stripped == lstrip(record)
        keys == SelectSeq(attrs, LAMBDA a : a # Key("description"))
        i == find(stripped, DescriptionMarker)
        description ==
            IF i # -1
            THEN strip_nul(From(stripped, i + Len(DescriptionMarker)))
            ELSE <<>>
        head == IF i # -1 THEN UpTo(stripped, i) ELSE stripped
    IN  IF stripped = <<>> THEN <<>>
        ELSE finish_history(
                 parse_header_lines(splitlines(head), keys,
                                    Key("description") :> description))

(***************************************************************************)
(* Features of the backend classes (api.py, backend.py).  A member of a    *)
(* class is <<name>> for a method and <<name, "fget">> or <<name, "fset">> *)
(* for the getter or the setter of a property, as in GROUPS_MAPPING.       *)
(***************************************************************************)

\* A function as its def statement leaves it; body is what running it does.
def(name, body) ==
    [name |-> name, body |-> body, enabled |-> FALSE, is_feature |-> FALSE]

\* feature(name=None, enabled=True, extra=None)(func): _decorator renames
\* the function when a name is given (<<>> is None), gives it three
\* attributes and returns the function itself.
feature(name, enabled, func) ==
    [func EXCEPT !.name = IF name # <<>> THEN name[1] ELSE @,
                 !.enabled = enabled, !.is_feature = TRUE]

\* The bodies of VCSBackendBase: a docstring or pass, and for
\* editable_branches the value of self.branches; all of them give None.
BaseMembers ==
    {<<"create">>, <<"changes", "fget">>, <<"change">>,
     <<"branch", "fget">>, <<"branch", "fset">>, <<"branches", "fget">>,
     <<"editable_branches", "fget">>, <<"create_branch">>,
     <<"delete_branch">>, <<"stage">>, <<"unstage">>, <<"stage_all">>,
     <<"unstage_all">>, <<"commit">>, <<"fetch">>, <<"pull">>, <<"push">>}

VCSBackendBase ==
    [m \in BaseMembers |-> feature(<<>>, FALSE, def(m, "None"))]

\* MercurialBackend defines the branch property anew, with a getter only.
MercurialBackend ==
    [m \in BaseMembers \ {<<"branch", "fset">>} |->
        IF m = <<"branch", "fget">>
        THEN feature(<<>>, TRUE, def(m, "get_hg_revision"))
        ELSE VCSBackendBase[m]]

\* The members GitBackend defines; create is the one it inherits.
GitMembers ==
    (BaseMembers \ {<<"create">>})
    \cup {<<"undo_stage">>, <<"undo_commit">>, <<"undo_change">>,
          <<"undo_change_all">>, <<"get_last_commits">>, <<"tags">>}

GitBackend ==
    [m \in BaseMembers \cup GitMembers |->
        IF m \in GitMembers THEN feature(<<>>, TRUE, def(m, "git"))
        ELSE VCSBackendBase[m]]

ClassNames == {"VCSBackendBase", "MercurialBackend", "GitBackend"}

Class(cls) ==
    CASE cls = "VCSBackendBase" -> VCSBackendBase
      [] cls = "MercurialBackend" -> MercurialBackend
      [] cls = "GitBackend" -> GitBackend

NoSetter ==
    Error("AttributeError", "property has no setter", "None", "None",
          "None", <<>>)

\* Calling a method, reading or assigning a property of an instance of cls.
\* revision is what get_hg_revision gives: <<>> or the branch it found.
invoke(cls, member, revision) ==
    IF member \notin DOMAIN Class(cls) THEN Raise(NoSetter)
    ELSE LET func == Class(cls)[member]
         IN  IF func.body = "get_hg_revision"
             THEN IF revision # <<>> THEN Return(revision[1])
                  ELSE Raise(VCSPropertyError_init("branch", "get", "None"))
             ELSE Return(func.body)

GROUPS_MAPPING ==
    [create |-> {<<"create">>},
     status |-> {<<"branch", "fget">>, <<"change">>, <<"changes", "fget">>},
     branches |-> {<<"branch", "fget">>, <<"branch", "fset">>,
                   <<"remote_branch", "fget">>, <<"branches", "fget">>,
                   <<"editable_branches", "fget">>, <<"create_branch">>,
                   <<"delete_branch">>},
     diff |-> {},
     stage_unstage |-> {<<"stage">>, <<"unstage">>, <<"stage_all">>,
                        <<"unstage_all">>, <<"undo_stage">>},
     commit |-> {<<"commit">>, <<"undo_commit">>},
     remote |-> {<<"fetch">>, <<"push">>, <<"pull">>},
     undo |-> {<<"undo_commit">>, <<"undo_stage">>, <<"undo_change">>,
               <<"undo_change_all">>},
     history |-> {},
     merge |-> {}]

NotImplementedError ==
    Error("NotImplementedError", "None", "None", "None", "None", <<>>)

TooManyArguments ==
    Error("TypeError", "takes from 1 to 2 positional arguments", "None",
          "None", "None", <<>>)

\* cls.check(*args): the classmethod is written without a cls parameter,
\* so the class is bound to group and the first argument to all; a second
\* argument is one too many.  The body raises.
check(cls, args) ==
    IF Len(args) > 1 THEN Raise(TooManyArguments)
    ELSE Raise(NotImplementedError)

(***************************************************************************)
(* VCSBackendBase.__init_subclass__ (api.py): a class body maps the        *)
(* declared names to what the class statement binds them to, a function or *)
(* a property around a getter.                                             *)
(***************************************************************************)

Function(func) == [kind |-> "function", func |-> func]

\* property(fget): the property object has the attributes of a property,
\* not those of its getter.
property(fget) == [kind |-> "property", func |-> fget]

\* getattr(attr, "_is_feature", False)
is_feature(attr) == attr.kind = "function" /\ attr.func.is_feature

\* The declared names in the order of dir(cls).
KeyOrder == <<"a", "b">>

\* The loop over attrs.items(): the items are taken before the loop and cls is
\* the class as the setattr calls so far have left it.
RECURSIVE adjust(_, _, _)
adjust(cls, items, keys) ==
    IF keys = <<>> THEN cls
    ELSE LET key == Head(keys)
             attr == items[key]
         IN  IF is_feature(attr) /\ attr.func.name # key
             THEN adjust((attr.func.name :> attr) @@ cls, items, Tail(keys))
             ELSE adjust(cls, items, Tail(keys))

\* The members that VCSBackendBase hands down keep their names and are
\* left out of the class body.
__init_subclass__(body) ==
    adjust(body, body, SelectSeq(KeyOrder, LAMBDA k : k \in DOMAIN body))

(***************************************************************************)
(* GitBackend operations (backend.py).  retcode is what run_helper gives   *)
(* for a git command: <<>> (None) when git could not be run, else <<n>>.   *)
(* output and returncode are what the status query wrote and returned.     *)
(***************************************************************************)

\* GitBackend._run: the integrity check on the exit code.
_run(retcode) ==
    IF retcode = <<>> THEN Raise(VCSBackendFail_init("git"))
    ELSE Return(retcode[1])

\* GitBackend.branch (getter)
branch_getter(output, returncode) ==
    LET st == get_git_status(output, Dot, returncode)
    IN  IF st.kind = "raise" THEN st
        ELSE LET revision == st.value.branch
             IN  IF revision # <<>> /\ revision[1][1] # <<>>
                 THEN Return(revision[1][1][1])
                 ELSE Raise(VCSPropertyError_init("branch", "get", "None"))

\* GitBackend.branch (setter); the text of raw_error is left out.
branch_setter(branchname, retcode, output, returncode) ==
    LET ran == _run(retcode)
        branch == branch_getter(output, returncode)
    IN  IF ran.kind = "raise" THEN ran
        ELSE IF ran.value # 0
        THEN Raise(VCSPropertyError_init("branch", "set", "None"))
        ELSE IF branch.kind = "raise" THEN branch
        ELSE IF branch.value # branchname
        THEN Raise(VCSPropertyError_init("branch", "set", "None"))
        ELSE Return("None")

\* One listing query of git_get_branches: the names of the lines that git
\* wrote, None unless git exited with 0 and wrote something.  query is the
\* exit code (<<>> when running git raised OSError) and the output.
listing(query) ==
    IF query.returncode = <<0>> /\ query.output # <<>>
    THEN <<splitlines(query.output)>>
    ELSE <<>>

\* git_get_branches(repopath, branch, tag, remote): None without git, else
\* the dictionary of the listings asked for.
git_get_branches(git, branch, tag, remote, queries) ==
    IF ~git THEN <<>>
    ELSE <<[key \in {k \in {"branch"} : branch} \cup {k \in {"tags"} : tag}
                    \cup {k \in {"remotes"} : remote} |->
                listing(queries[key])]>>

KeyError(key) == Error("KeyError", key, "None", "None", "None", <<>>)

NotIterable ==
    Error("TypeError", "'NoneType' object is not iterable", "None", "None",
          "None", <<>>)

\* GitBackend.branches: the values of the dictionary in insertion order,
\* flattened.
branches_getter(git, queries) ==
    LET branches == git_get_branches(git, TRUE, TRUE, TRUE, queries)
    IN  IF branches = <<>>
        THEN Raise(VCSPropertyError_init("branches", "get", "None"))
        ELSE IF \E key \in DOMAIN branches[1] : branches[1][key] = <<>>
        THEN Raise(NotIterable)
        ELSE Return(<<branches[1]["branch"][1] \o branches[1]["tags"][1]
                      \o branches[1]["remotes"][1]>>)

\* GitBackend.editable_branches
editable_branches_getter(git, queries) ==
    LET branches == git_get_branches(git, TRUE, FALSE, FALSE, queries)
    IN  IF branches = <<>>
        THEN Raise(VCSPropertyError_init("editable_branches", "get",
                                         "None"))
        ELSE Return(branches[1]["branch"])

\* GitBackend.tags
tags(git, queries) ==
    LET found == git_get_branches(git, FALSE, TRUE, FALSE, queries)
    IN  IF found = <<>>
        THEN Raise(VCSPropertyError_init("tags", "get", "None"))
        ELSE IF "tag" \in DOMAIN found[1] THEN Return(found[1]["tag"])
        ELSE Raise(KeyError("tag"))

\* VCSError.__init__(self, error=None, raw_error=None) called with the
\* positional and keyword arguments that a subclass passes on.
VCSError_init(args, kwargs) ==
    IF Len(args) > 2
    THEN Error("TypeError", "too many positional arguments", "None",
               "None", "None", <<>>)
    ELSE IF \/ Len(args) >= 1 /\ "error" \in DOMAIN kwargs
            \/ Len(args) = 2 /\ "raw_error" \in DOMAIN kwargs
    THEN Error("TypeError", "got multiple values for argument", "None",
               "None", "None", <<>>)
    ELSE Error("VCSError",
               IF Len(args) >= 1 THEN args[1]
               ELSE Get(kwargs, "error", "None"),
               "None", "None", "None", <<>>)

\* VCSUnexpectedError(*args, method=None, **kwargs)
VCSUnexpectedError_args(args, method, kwargs) ==
    LET e == VCSError_init(args, kwargs)
    IN  IF e.class = "TypeError" THEN e
        ELSE [e EXCEPT !.class = "VCSUnexpectedError", !.method = method]

\* The loop of GitBackend.change over the records of the status: the
\* dictionary found, <<>> for None.
RECURSIVE first_change(_, _)
first_change(filestates, prefer_unstaged) ==
    IF filestates = <<>> THEN Return(<<>>)
    ELSE LET changes == _parse_change_record(Head(filestates))
         IN  IF Len(changes) = 2
             THEN Return(<<changes[IF prefer_unstaged THEN 1 ELSE 2]>>)
             ELSE IF Len(changes) = 1 THEN Return(<<changes[1]>>)
             ELSE first_change(Tail(filestates), prefer_unstaged)

\* GitBackend.change(path, prefer_unstaged)
change(path, prefer_unstaged, output, returncode) ==
    LET st == get_git_status(output, path, returncode)
    IN  IF st.kind = "raise" THEN st
        ELSE IF st.value.changes = <<>>
        THEN Raise(VCSUnexpectedError_args(
                       <<"change">>, "None",
                       [error |-> "Failed to get git changes"]))
        ELSE first_change(st.value.changes[1], prefer_unstaged)

\* GitBackend.stage(path): retcode is the exit code of `git add path`.
stage(path, retcode, output, returncode) ==
    LET ran == _run(retcode)
        found == change(path, TRUE, output, returncode)
    IN  IF ran.kind = "raise" THEN ran
        ELSE IF ran.value # 0 THEN Return("False")
        ELSE IF found.kind = "raise" THEN found
        ELSE IF found.value # <<>> /\ found.value[1].staged
        THEN Return("True")
        ELSE Return("False")

\* GitBackend.unstage(path): retcode is that of `git reset -- path`.
unstage(path, retcode, output, returncode) ==
    LET ran == _run(retcode)
        found == change(path, FALSE, output, returncode)
    IN  IF ran.kind = "raise" THEN ran
        ELSE IF ran.value # 0 THEN Return("False")
        ELSE IF found.kind = "raise" THEN found
        ELSE IF found.value # <<>> /\ ~found.value[1].staged
        THEN Return("True")
        ELSE Return("False")

stage_all(retcode, output, returncode) ==
    stage(Dot, retcode, output, returncode)

unstage_all(retcode, output, returncode) ==
    unstage(Dot, retcode, output, returncode)

\* VCSAuthError.are_credentials_inserted (errors.py): e is the error as
\* VCSAuthError_init leaves it, a field that was not given is "None".
are_credentials_inserted(e) ==
    \A k \in DOMAIN e.required_credentials :
        e[e.required_credentials[k]] = "None"

\* A git command and the arguments _run gets.
Command(cmd, option, arg) == [cmd |-> cmd, option |-> option, arg |-> arg]

\* What a call has come to: its outcome, the git commands it issued and the
\* repository as they left it.
Ran(result, commands, repo) ==
    [kind |-> result.kind, value |-> result.value, error |-> result.error,
     commands |-> commands, repo |-> repo]

\* create_branch running `git rm -r .` whether or not it is needed.
create_branch_eager(branchname, from_current, checkout, rm, repo) ==
    LET args == Command("checkout",
                        IF from_current THEN "-b" ELSE "--orphan",
                        branchname)
        remove == Command("rm", "-r", Dot)
        first == _run(checkout)
        second == _run(rm)
        switched ==
            IF checkout = <<0>> THEN [repo EXCEPT !.branch = branchname]
            ELSE repo
        removed ==
            IF rm = <<0>> THEN [switched EXCEPT !.tracked = FALSE]
            ELSE switched
    IN  IF first.kind = "raise" THEN Ran(first, <<args>>, repo)
        ELSE IF second.kind = "raise"
        THEN Ran(second, <<args, remove>>, switched)
        ELSE IF first.value # 0
        THEN Ran(Return("False"), <<args, remove>>, removed)
        ELSE IF from_current
        THEN Ran(Return("True"), <<args, remove>>, removed)
        ELSE Ran(Return(IF second.value = 0 THEN "True" ELSE "False"),
                 <<args, remove>>, removed)

\* GitBackend.create_branch(branchname, from_current): checkout and rm are
\* the exit codes git gives the two commands.  A checkout that exits with 0
\* makes branchname the current branch, an rm that exits with 0 leaves no
\* tracked content.
create_branch(branchname, from_current, checkout, rm, repo) ==
    LET args == Command("checkout",
                        IF from_current THEN "-b" ELSE "--orphan",
                        branchname)
        remove == Command("rm", "-r", Dot)
        first == _run(checkout)
        second == _run(rm)
        switched ==
            IF checkout = <<0>> THEN [repo EXCEPT !.branch = branchname]
            ELSE repo
        removed ==
            IF rm = <<0>> THEN [switched EXCEPT !.tracked = FALSE]
            ELSE switched
    IN  IF first.kind = "raise" THEN Ran(first, <<args>>, repo)
        ELSE IF first.value # 0 THEN Ran(Return("False"), <<args>>, repo)
        ELSE IF from_current THEN Ran(Return("True"), <<args>>, switched)
        ELSE IF second.kind = "raise"
        THEN Ran(second, <<args, remove>>, switched)
        ELSE Ran(Return(IF second.value = 0 THEN "True" ELSE "False"),
                 <<args, remove>>, removed)

(***************************************************************************)
(* Calls of the parsing functions: the arguments come from bounded sets,   *)
(* the text git wrote is rendered from them.                               *)
(***************************************************************************)

Locals == {<<"m", "a", "i", "n">>, <<"x">>}
Remotes == {<<>>, <<<<"o", "/", "m">>>>}
Words == {<<"a", "h", "e", "a", "d">>, <<"b", "e", "h", "i", "n", "d">>}
Counts == {1, 12}

Markers == {[word |-> w, n |-> n] : w \in Words, n \in Counts}

MarkerSeqs ==
    {<<>>} \cup {<<a>> : a \in Markers}
    \cup {<<a, b>> : a \in Markers, b \in Markers}

\* A header line as `git status -b --porcelain=v1` writes it.
Headers ==
    {[kind |-> "header", local |-> l, remote |-> r, markers |-> ms,
      text |-> <<>>] :
        l \in Locals, r \in Remotes,
        ms \in {s \in MarkerSeqs : Len(s) = 2 => s[1].word # s[2].word}}

\* First lines that are no header.
OtherFirst ==
    {[kind |-> "other", local |-> <<>>, remote |-> <<>>, markers |-> <<>>,
      text |-> t] : t \in {<<"#", "#">>, <<"#", " ", "m", "a", "i", "n">>, <<"#">>}}

MainHeader ==
    [kind |-> "header", local |-> <<"m", "a", "i", "n">>, remote |-> <<>>,
     markers |-> <<>>, text |-> <<>>]

StatusChars == {" ", "M", "A", "D", "?", "U", "R", "C"}

\* a.py, it's, d\ and "a\"b" (quoted by git)
PathTexts ==
    {<<"a", ".", "p", "y">>, <<"i", "t", "'", "s">>, <<"d", "\\">>, <<"\"", "a", "\\", "\"", "b", "\"">>}

FileLine(x, y, path) ==
    [kind |-> "file", x |-> x, y |-> y, path |-> path, text |-> <<>>]

\* Lines that are no file line: an empty one and one of a single character.
OtherLines ==
    {[kind |-> "other", x |-> "", y |-> "", path |-> <<>>, text |-> t] :
        t \in {<<>>, <<"M">>}}

\* The lines of the files below the directory p.
DirLines ==
    {FileLine(s[1], s[2], <<"p", "/", "f">>) :
        s \in {<<"M", " ">>, <<" ", "M">>, <<"A", " ">>, <<"?", "?">>,
               <<"M", "M">>, <<"D", "D">>, <<"A", "M">>, <<"R", " ">>}}

MixedLines ==
    {FileLine(" ", "M", <<"a", ".", "p", "y">>), FileLine("?", "?", <<"i", "t", "'", "s">>)}
    \cup OtherLines

\* The line sequences of the calls.
LineSeqs ==
    {<<>>}
    \cup {<<FileLine(x, y, p)>> : x \in StatusChars, y \in StatusChars,
                                  p \in PathTexts}
    \cup {<<l>> : l \in OtherLines}
    \cup UNION {[1..k -> DirLines] : k \in 2..MaxLines}
    \cup [1..2 -> MixedLines]

SimpleLineSeqs ==
    {<<>>, <<FileLine(" ", "M", <<"a", ".", "p", "y">>)>>,
     <<FileLine("?", "?", <<"a", ".", "p", "y">>)>>}

StatusTexts ==
    {[first |-> h, lines |-> ls] : h \in Headers \cup OtherFirst,
                                   ls \in SimpleLineSeqs}
    \cup {[first |-> MainHeader, lines |-> ls] : ls \in LineSeqs}

Pathspecs == {Dot, <<"p">>}
ReturnCodes == {0, 128}

\* The labelled lines that `git log --pretty=id:%h%n...title:%s%n` writes
\* before the description; a value may look like a labelled line itself.
HeaderLines ==
    {[label |-> l, value |-> v] :
        l \in {"id", "title"}, v \in {<<"1", "a">>, <<"t", "i", "t", "l", "e", ":", "z", "z">>}}
    \cup {[label |-> "commit_date", value |-> v] :
            v \in {<<"1", "2">>, <<"x">>}}

\* The lines of a commit message body (%b): <<>> is a record without
\* the description section.
Descriptions ==
    {<<>>, <<<<>>>>, <<<<<<"b", "o", "d", "y">>>>>>,
     <<<<<<"t", "i", "t", "l", "e", ":", "z", "z">>, <<"b", "o", "d", "y">>>>>>,
     <<<<<<"x">>, <<"d", "e", "s", "c", "r", "i", "p", "t", "i", "o", "n", ":">>, <<"i", "d", ":", "9">>>>>>}

HistoryRecords ==
    {[header |-> h, description |-> d, sentinel |-> z] :
        h \in UNION {[1..k -> HeaderLines] : k \in 1..MaxHeaderLines},
        d \in Descriptions, z \in BOOLEAN}

RECURSIVE JoinText(_)
JoinText(ls) ==
    IF ls = <<>> THEN <<>> ELSE Head(ls) \o <<"\n">> \o JoinText(Tail(ls))

RECURSIVE JoinHeader(_)
JoinHeader(h) ==
    IF h = <<>> THEN <<>>
    ELSE Key(Head(h).label) \o <<":">> \o Head(h).value \o <<"\n">>
         \o JoinHeader(Tail(h))

\* One of the records that output.split(b"\x00") gives, or the whole
\* output with its sentinel.
Record(r) ==
    <<"\n">> \o JoinHeader(r.header)
    \o (IF r.description = <<>> THEN <<>>
        ELSE Key("description") \o <<":", "\n">>
             \o JoinText(r.description[1]))
    \o (IF r.sentinel THEN <<NUL>> ELSE <<>>)

Marker(a) == a.word \o <<" ">> \o str(a.n)

HeaderText(h) ==
    IF h.kind = "other" THEN h.text
    ELSE <<"#", "#", " ">> \o h.local
         \o (IF h.remote = <<>> THEN <<>>
             ELSE <<".", ".", ".">> \o h.remote[1])
         \o (IF h.markers = <<>> THEN <<>>
             ELSE <<" ", "[">> \o Marker(h.markers[1])
                  \o (IF Len(h.markers) = 1 THEN <<>>
                      ELSE <<",", " ">> \o Marker(h.markers[2]))
                  \o <<"]">>)

LineText(l) ==
    IF l.kind = "other" THEN l.text ELSE <<l.x, l.y, " ">> \o l.path

RECURSIVE JoinLines(_)
JoinLines(ls) ==
    IF ls = <<>> THEN <<>>
    ELSE LineText(Head(ls)) \o <<"\n">> \o JoinLines(Tail(ls))

\* What git wrote to its standard output.
Output(t) == HeaderText(t.first) \o <<"\n">> \o JoinLines(t.lines)

Pending(fn, input) ==
    [fn |-> fn, input |-> input, done |-> FALSE, result |-> NotCalled]

StatusCalls ==
    {Pending("get_git_status",
             [text |-> t, pathspec |-> p, returncode |-> c]) :
        t \in StatusTexts, p \in Pathspecs, c \in ReturnCodes}
    \cup {Pending("changes",
                  [text |-> t, pathspec |-> Dot, returncode |-> c]) :
            t \in StatusTexts, c \in ReturnCodes}

\* A function that is about to be called on arguments of the sets above.
HistoryCalls ==
    {Pending("_parse_history_record", r) : r \in HistoryRecords}

\* State numbers, those of ChangedStatus and others, and state names in
\* lower and upper case, with one that names no state.
StateCodes == 0..(ChangedStatus[Len(ChangedStatus)].val + 1)

StateNameTexts ==
    {lower(ChangedStatus[k].name) : k \in 1..Len(ChangedStatus)}
    \cup {ChangedStatus[k].name : k \in 1..Len(ChangedStatus)}
    \cup {<<"n", "o", "p", "e">>, <<>>}

ChangedStatusCalls ==
    {Pending("to_string", v) : v \in StateCodes}
    \cup {Pending("from_string", n) : n \in StateNameTexts}

\* A member of a class that is about to be used; the members whose body
\* runs git are used through the calls above.
Revisions == {<<>>, <<"default">>}

FeatureCalls ==
    {Pending("invoke", i) :
        i \in {x \in [cls : ClassNames, member : BaseMembers,
                      revision : Revisions] :
                  x.member \in DOMAIN Class(x.cls) =>
                      Class(x.cls)[x.member].body # "git"}}

\* cls.check(group) and cls.check(group, all)
CheckCalls ==
    {Pending("check", [cls |-> c, args |-> a]) :
        c \in ClassNames,
        a \in {<<g>> : g \in DOMAIN GROUPS_MAPPING}
              \cup ((DOMAIN GROUPS_MAPPING) \X BOOLEAN)}

\* Class bodies of subclasses of VCSBackendBase: each declared name is a
\* plain method, a feature or a property whose getter is a feature, named
\* after itself (None) or otherwise.
LogicalNames == {"a", "b", "c"}

FeatureNames == {<<>>} \cup {<<n>> : n \in LogicalNames}

Declarations(key) ==
    {Function(def(key, key))}
    \cup {Function(feature(n, TRUE, def(key, key))) : n \in FeatureNames}
    \cup {property(feature(n, TRUE, def(key, key))) : n \in FeatureNames}

Range_(f) == {f[x] : x \in DOMAIN f}

ClassBodies ==
    UNION {{body \in [keys -> UNION {Declarations(k) : k \in keys}] :
              \A k \in keys : body[k] \in Declarations(k)} :
           keys \in (SUBSET Range_(KeyOrder)) \ {{}}}

SubclassCalls == {Pending("__init_subclass__", b) : b \in ClassBodies}

\* The exit codes of a git command, None when git did not run.
RunCodes == {<<>>, <<0>>, <<1>>}

\* What the status query writes for a repository without changes, and for
\* one whose only line is none that git writes.
BranchTexts ==
    {t \in StatusTexts : t.lines = <<>>}
    \cup {[first |-> MainHeader, lines |-> <<l>>] : l \in OtherLines}

BranchCalls ==
    {Pending("branch.fset",
             [branchname |-> b, retcode |-> r, text |-> t,
              returncode |-> c]) :
        b \in Locals, r \in RunCodes, t \in BranchTexts, c \in ReturnCodes}

\* The names a listing query lists, and the three queries of a call.
NameLists == {<<>>, <<<<"m", "a", "i", "n">>, <<"v", "1">>>>}

Queries ==
    [branch : RunCodes \X NameLists, tags : RunCodes \X NameLists,
     remotes : RunCodes \X NameLists]

QueryOf(q) == [returncode |-> q[1], output |-> JoinText(q[2])]

ListingCalls ==
    {Pending(fn, [git |-> g, queries |-> q]) :
        fn \in {"branches", "editable_branches", "tags"},
        g \in BOOLEAN, q \in Queries}

\* The files of a repository, as the lines that the status query writes
\* for them.
RepoTexts ==
    {[first |-> MainHeader,
      lines |-> [i \in DOMAIN ls |->
                    [ls[i] EXCEPT !.path = <<"p", "/">> \o str(i)]]] :
        ls \in UNION {[1..k -> DirLines] : k \in 0..MaxFiles}}

ChangeCalls ==
    {Pending("change",
             [path |-> p, prefer_unstaged |-> u, text |-> t,
              returncode |-> c]) :
        p \in Pathspecs, u \in BOOLEAN, t \in RepoTexts, c \in ReturnCodes}

\* stage_all and unstage_all: the exit code of the git command and the
\* files of the repository as the command has left them.
StageCalls ==
    {Pending(fn, [retcode |-> r, text |-> t, returncode |-> c]) :
        fn \in {"stage_all", "unstage_all"}, r \in RunCodes,
        t \in RepoTexts, c \in ReturnCodes}

\* VCSAuthError(required, **credentials).are_credentials_inserted
RequiredSeqs ==
    {<<>>, <<"username">>, <<"password">>, REQUIRED_CREDENTIALS}

AuthErrorCalls ==
    {Pending("are_credentials_inserted",
             [required_credentials |-> r, credentials |-> d]) :
        r \in RequiredSeqs, d \in CredentialsDicts}

\* Repositories on the branch dev, with or without tracked content, and
\* the branches to create in them.
Repos ==
    {[branch |-> <<"d", "e", "v">>, tracked |-> t] : t \in BOOLEAN}

CreateBranchCalls ==
    {Pending("create_branch",
             [branchname |-> b, from_current |-> f, checkout |-> c,
              rm |-> r, repo |-> repo]) :
        b \in Locals, f \in BOOLEAN, c \in RunCodes, r \in RunCodes,
        repo \in Repos}

CallInit ==
    /\ ManagerIdle
    /\ SessionIdle
    /\ SendIdle
    /\ call \in StatusCalls \cup HistoryCalls \cup ChangedStatusCalls
                 \cup FeatureCalls \cup CheckCalls
                 \cup CreateBranchCalls
                 \cup AuthErrorCalls
                 \cup StageCalls
                 \cup ChangeCalls
                 \cup ListingCalls
                 \cup BranchCalls
                 \cup SubclassCalls

Finish(result) ==
    /\ ~call.done
    /\ call' = [call EXCEPT !.done = TRUE, !.result = result]
    /\ UNCHANGED <<managerVars, sessionVars, sendVars>>

GetGitStatus ==
    /\ call.fn = "get_git_status"
    /\ Finish(get_git_status(Output(call.input.text), call.input.pathspec,
                             call.input.returncode))

Changes ==
    /\ call.fn = "changes"
    /\ Finish(changes_getter(Output(call.input.text),
                             call.input.returncode))

ParseHistoryRecord ==
    /\ call.fn = "_parse_history_record"
    /\ Finish(Return(_parse_history_record(Record(call.input))))

ToStringCall ==
    /\ call.fn = "to_string"
    /\ Finish(to_string(call.input))

FromStringCall ==
    /\ call.fn = "from_string"
    /\ Finish(from_string(call.input))

Invoke ==
    /\ call.fn = "invoke"
    /\ Finish(invoke(call.input.cls, call.input.member,
                     call.input.revision))

Check ==
    /\ call.fn = "check"
    /\ Finish(check(call.input.cls, call.input.args))

InitSubclass ==
    /\ call.fn = "__init_subclass__"
    /\ Finish(Return(__init_subclass__(call.input)))

BranchSet ==
    /\ call.fn = "branch.fset"
    /\ Finish(branch_setter(call.input.branchname, call.input.retcode,
                            Output(call.input.text),
                            call.input.returncode))

Listing ==
    /\ call.fn \in {"branches", "editable_branches", "tags"}
    /\ LET queries == [k \in DOMAIN call.input.queries |->
                          QueryOf(call.input.queries[k])]
       IN  Finish(CASE call.fn = "branches" ->
                         branches_getter(call.input.git, queries)
                    [] call.fn = "editable_branches" ->
                         editable_branches_getter(call.input.git, queries)
                    [] call.fn = "tags" -> tags(call.input.git, queries))

Change ==
    /\ call.fn = "change"
    /\ Finish(change(call.input.path, call.input.prefer_unstaged,
                     Output(call.input.text), call.input.returncode))

StageAll ==
    /\ call.fn = "stage_all"
    /\ Finish(stage_all(call.input.retcode, Output(call.input.text),
                        call.input.returncode))

UnstageAll ==
    /\ call.fn = "unstage_all"
    /\ Finish(unstage_all(call.input.retcode, Output(call.input.text),
                          call.input.returncode))

AreCredentialsInserted ==
    /\ call.fn = "are_credentials_inserted"
    /\ LET e == VCSAuthError_init(<<call.input.required_credentials>>,
                                  call.input.credentials)
       IN  Finish(Return(IF are_credentials_inserted(e)
                         THEN "True" ELSE "False"))

CreateBranch ==
    /\ call.fn = "create_branch"
    /\ Finish(create_branch(call.input.branchname, call.input.from_current,
                            call.input.checkout, call.input.rm,
                            call.input.repo))

CallNext ==
    \/ GetGitStatus
    \/ Changes
    \/ ParseHistoryRecord
    \/ ToStringCall
    \/ FromStringCall
    \/ Invoke
    \/ Check
    \/ InitSubclass
    \/ BranchSet
    \/ Listing
    \/ Change
    \/ StageAll
    \/ UnstageAll
    \/ AreCredentialsInserted
    \/ CreateBranch

CallSpec == CallInit /\ [][CallNext]_vars

(***************************************************************************)
(* send_args_to_spyder (spyderlib/start_app.py): the client that hands the *)
(* command line arguments to the instance that holds the lock.             *)
(***************************************************************************)
Retries == 200

\* A path is a directory ("" for a relative path) and a file name.
Cwd == "/cwd"

\* osp.abspath(arg)
abspath(arg) == IF arg.dir = "" THEN [arg EXCEPT !.dir = Cwd] ELSE arg

\* The argument lists of main: send_args_to_spyder is called for a list
\* that is not empty.
ArgLists ==
    {<<[dir |-> "", name |-> "a.py"]>>,
     <<[dir |-> "", name |-> "a.py"], [dir |-> "", name |-> "b.py"]>>,
     <<[dir |-> "/abs", name |-> "c.mat"], [dir |-> "", name |-> "a.py"]>>}

\* main (lines 59-61): the lock is held by another instance, which may not
\* accept connections yet.
SendInit ==
    /\ ManagerIdle
    /\ SessionIdle
    /\ CallIdle
    /\ \E args \in ArgLists :
          client = [pc |-> "try", x |-> 0, i |-> 1, args |-> args]
    /\ \E up \in BOOLEAN :
          server = [up |-> up, outages |-> 0, received |-> <<>>]

\* One turn of `for arg in args` (lines 28-33): connect, send and close, or
\* socket.error when the instance does not accept the connection.
Connect ==
    /\ client.pc = "try"
    /\ client.i <= Len(client.args)
    /\ IF server.up
       THEN /\ server' = [server EXCEPT !.received =
                             Append(@, abspath(client.args[client.i]))]
            /\ client' = [client EXCEPT !.i = @ + 1]
       ELSE /\ client' = [client EXCEPT !.pc = "sleep"]
            /\ UNCHANGED server
    /\ UNCHANGED <<managerVars, sessionVars, callVars>>

\* The inner loop is through: break (line 37).
Break ==
    /\ client.pc = "try"
    /\ client.i > Len(client.args)
    /\ client' = [client EXCEPT !.pc = "done"]
    /\ UNCHANGED <<server, managerVars, sessionVars, callVars>>

\* except socket.error (lines 34-36): sleep and continue with the next _x,
\* where `for arg in args` starts anew; after the last _x the function
\* returns.
Sleep ==
    /\ client.pc = "sleep"
    /\ client' = IF client.x + 1 < Retries
                 THEN [client EXCEPT !.pc = "try", !.x = @ + 1, !.i = 1]
                 ELSE [client EXCEPT !.pc = "exhausted", !.x = @ + 1]
    /\ UNCHANGED <<server, managerVars, sessionVars, callVars>>

\* The running instance starts to accept connections.
ServerUp ==
    /\ ~server.up
    /\ server' = [server EXCEPT !.up = TRUE]
    /\ UNCHANGED <<client, managerVars, sessionVars, callVars>>

\* The running instance stops accepting connections for a while.
ServerDown ==
    /\ server.up
    /\ server.outages < MaxOutages
    /\ server' = [server EXCEPT !.up = FALSE, !.outages = @ + 1]
    /\ UNCHANGED <<client, managerVars, sessionVars, callVars>>

SendNext ==
    \/ Connect
    \/ Break
    \/ Sleep
    \/ ServerUp
    \/ ServerDown

SendSpec == SendInit /\ [][SendNext]_vars

(***************************************************************************)
(* Properties of the backend manager                                       *)
(***************************************************************************)
\* The state right after an execution of the repodir setter (by the
\* constructor or by an assignment) with a non-empty path.
JustBound == last.op \in {"init", "bind"} /\ bind.path # ""

\* Index of the first constructor that does not fail with one of the
\* errors in skipped; 0 when all of them do.
RECURSIVE FirstNot(_, _, _)
FirstNot(o, skipped, i) ==
    IF i > Len(o) THEN 0
    ELSE IF o[i] \in skipped THEN FirstNot(o, skipped, i + 1)
    ELSE i

\* The constructor calls of the last bind are those of the first k
\* registered types, in registration order.
ProbedPrefix(k) ==
    /\ _backends = regLog
    /\ Len(bind.probes) = k
    /\ \A i \in 1..k :
         /\ bind.probes[i].index = i
         /\ bind.probes[i].type = regLog[i]
         /\ bind.probes[i].outcome = bind.o[i]

\* The backend constructed by the k-th constructor call is the active one.
Activated(k) ==
    /\ bind.result = "ok"
    /\ _backend # None
    /\ _backend.type = regLog[k]
    /\ _backend.path = bind.path
    /\ _backend.id = bind.instance

C5_UnboundOperationsFail ==
    (last.op \in {"get", "call", "set", "del"} /\ _backend = None) =>
        last.result \in {"AttributeError", "RecursionError"}

(***************************************************************************)
(* Properties of the credential session                                    *)
(***************************************************************************)
\* The session has called sendline in answer to the given prompt.
Sent(prompt) ==
    \E k \in 1..Len(io) : io[k].call = "sendline" /\ io[k].arg = prompt

\* The session has waited for the given prompt.
Expected(prompt) ==
    \E k \in 1..Len(io) : io[k].call = "expect" /\ io[k].arg = prompt

\* The first expect ended in EOF or TIMEOUT: no username prompt was shown.
UsernameNotPrompted == Len(io) >= 1 /\ io[1].ret # 0

\* git_remote_operation_posix has returned.
Returned == status # StatusUnset

\* The messages that contain "http basic: access denied" in some letter
\* case, listed by hand.
DeniedMessages == {"denied", "denied_lower", "denied_upper"}

\* C6: when the subprocess has ended without showing a username prompt,
\* the result depends on how it ended only: killed by a signal gives None,
\* a non-zero exit gives the output before the exit, a zero exit gives True;
\* nothing is sent and no further prompt is waited for.
C6_UnpromptedExitByStatus ==
    (UsernameNotPrompted /\ ~io[1].alive) =>
        /\ status = CASE proc.signalstatus # <<>> -> StatusNone
                      [] proc.exitstatus = <<0>> -> StatusTrue
                      [] OTHER -> StatusBytes(proc.before)
        /\ Len(io) = 1
        /\ ~Sent("Username")
        /\ ~Sent("Password")

\* C6 witness: git failed before any prompt and its output is returned.
C6_Witness ==
    /\ pc = "done"
    /\ UsernameNotPrompted
    /\ io[1].ret = 1
    /\ proc.exitstatus = <<1>>
    /\ proc.before = "not_found"
    /\ status = StatusBytes("not_found")
    /\ ~Sent("Username")

\* C7: once the password was sent and the subprocess has ended, a zero exit
\* without signal gives True; otherwise output containing "http basic:
\* access denied" in any letter case gives False and any other output is
\* returned as it is.  False is returned only after a password was sent.
C7_ClassifiedAfterPassword ==
    /\ (Sent("Password") /\ Returned) =>
          status = IF proc.exitstatus = <<0>> /\ proc.signalstatus = <<>>
                   THEN StatusTrue
                   ELSE IF proc.before \in DeniedMessages THEN StatusFalse
                   ELSE StatusBytes(proc.before)
    /\ status = StatusFalse => Sent("Password")

\* C7 witness: the rejection message with capital letters gives False.
C7_Witness ==
    /\ Sent("Password")
    /\ proc.exitstatus = <<1>>
    /\ proc.before = "denied"
    /\ status = StatusFalse

\* C8: when the first expect ends in EOF or TIMEOUT the session neither
\* waits for a password prompt nor sends the password, and its result is
\* neither True nor False; the password is sent only after the username.
C8_NoPromptIsUnexpected ==
    /\ UsernameNotPrompted =>
          /\ pc # "expect_password"
          /\ ~Expected("Password")
          /\ ~Sent("Password")
          /\ status \notin {StatusTrue, StatusFalse}
    /\ Sent("Password") => Sent("Username")

\* C9: the remote operation always comes to an end, whatever the
\* subprocess does.
C9_SessionReturns == <>(pc = "done")

\* C10: when the session returned False the remote operation raises a
\* VCSAuthError that carries the username and password used and the
\* required credential fields, and is not a VCSUnexpectedError.
C10_AuthFailedRaisesAuthError ==
    (pc = "done" /\ status = StatusFalse) =>
        /\ outcome.kind = "raise"
        /\ outcome.error.class = "VCSAuthError"
        /\ outcome.error.class # "VCSUnexpectedError"
        /\ outcome.error.username = SessionUsername(cred)
        /\ outcome.error.password = Get(cred.credentials, "password", "None")
        /\ outcome.error.required_credentials = REQUIRED_CREDENTIALS

\* bool(value) of what pull or push returned: True, or a non-zero int.
PyBool(value) == value \in {"True", "1"}

\* The conditions under which the claim lets the username be persisted.
PersistDue(c) ==
    /\ "username" \in DOMAIN c.credentials
    /\ TruthyStr(c.credentials["username"])
    /\ ~("password" \in DOMAIN c.credentials
         /\ TruthyStr(c.credentials["password"]))
    /\ c.gitname # c.credentials["username"]

\* C11: after a session classified Success the remote operation reports
\* success; `git config --local user.name` runs only when a username and
\* no password was supplied and the configured name differs, and then the
\* operation reports success when it exits with 0 and failure otherwise.
C11_SuccessReported ==
    (pc = "returned" /\ status = StatusTrue) =>
        \A retcode \in RetCodes :
            LET o == remote_operation_result(cred, status, retcode)
            IN  IF PersistDue(cred)
                THEN (o.kind = "return" /\ PyBool(o.value))
                        <=> retcode = <<0>>
                ELSE o = Return("True")

(***************************************************************************)
(* Properties of the status parser                                         *)
(***************************************************************************)

\* The state that the status code table gives a character.
CodeTable(c) ==
    CASE c = " " -> UNCHANGED_
      [] c = "A" -> ADDED
      [] c = "D" -> REMOVED
      [] c = "M" -> MODIFIED
      [] c = "R" -> REMOVED
      [] c = "C" -> COPIED
      [] OTHER -> UNKNOWN

\* The number of a state.
KindOf(name) ==
    CASE name = UNCHANGED_ -> 0
      [] name = ADDED -> 1
      [] name = REMOVED -> 2
      [] name = MODIFIED -> 3
      [] name = COPIED -> 11
      [] name = UNKNOWN -> 99

Untracked(l) == l.x = "?" /\ l.y = "?"
StagedOf(l) == IF Untracked(l) THEN UNCHANGED_ ELSE CodeTable(l.x)
UnstagedOf(l) == IF Untracked(l) THEN ADDED ELSE CodeTable(l.y)
RenameOrCopy(l) == l.x \in {"R", "C"} \/ l.y \in {"R", "C"}

\* The paths of PathTexts that are no escaped text: it's and d\ .
Undecodable == {<<"i", "t", "'", "s">>, <<"d", "\\">>}

\* The file name that a path of the output stands for.
PathOf(text) ==
    IF text = <<"\"", "a", "\\", "\"", "b", "\"">>
    THEN <<"a", "\"", "b">>
    ELSE text

\* The records that a file line is to give, for each area one.
RecordsOf(l) ==
    IF RenameOrCopy(l) \/ l.path \in Undecodable THEN {}
    ELSE {FileChange(PathOf(l.path), KindOf(StagedOf(l)), TRUE) :
              x \in {x \in {1} : StagedOf(l) # UNCHANGED_}}
         \cup {FileChange(PathOf(l.path), KindOf(UnstagedOf(l)), FALSE) :
                   x \in {x \in {1} : UnstagedOf(l) # UNCHANGED_}}

RECURSIVE CountRecords(_)
CountRecords(ls) ==
    IF ls = <<>> THEN 0
    ELSE Cardinality(RecordsOf(Head(ls))) + CountRecords(Tail(ls))

Range(f) == {f[k] : k \in DOMAIN f}

FileLinesOnly(ls) == \A k \in DOMAIN ls : ls[k].kind = "file"

\* A call that git answered with exit code 0 has returned or raised.
Parsed(fn) ==
    /\ call.fn = fn
    /\ call.done
    /\ call.input.returncode = 0

\* C12: the status parser and the changes built on it raise nothing,
\* whatever the lines are, empty and one-character lines included; a file
\* line whose path cannot be decoded gives no record and the records of
\* the other lines are all reported.
C12_ParsersNeverRaise ==
    /\ Parsed("get_git_status") => call.result.kind = "return"
    /\ Parsed("changes") =>
          /\ call.result.kind = "return"
          /\ (call.input.text.first.kind = "header"
              /\ FileLinesOnly(call.input.text.lines)) =>
                /\ \A k \in DOMAIN call.input.text.lines :
                      RecordsOf(call.input.text.lines[k])
                          \subseteq Range(call.result.value)
                /\ Len(call.result.value)
                       = CountRecords(call.input.text.lines)

AheadOf(ms) ==
    IF \E k \in DOMAIN ms : ms[k].word = <<"a", "h", "e", "a", "d">>
    THEN ms[CHOOSE k \in DOMAIN ms : ms[k].word = <<"a", "h", "e", "a", "d">>].n
    ELSE 0

BehindOf(ms) ==
    IF \E k \in DOMAIN ms : ms[k].word = <<"b", "e", "h", "i", "n", "d">>
    THEN ms[CHOOSE k \in DOMAIN ms : ms[k].word = <<"b", "e", "h", "i", "n", "d">>].n
    ELSE 0

\* The (path, staged, unstaged) entry that a file line is to give.
EntryOf(l) == <<l.path, StagedOf(l), UnstagedOf(l)>>

\* C13: a header "## local[...remote][ [marker[, marker]]]" gives the local
\* name, the remote name or None, and the numbers of its ahead and behind
\* markers in either order, 0 for a marker that is not there; a first line
\* that is no header gives (None, None) and (0, 0), and the file lines
\* after it are parsed all the same.
C13_HeaderParsed ==
    Parsed("get_git_status") =>
        LET h == call.input.text.first
            ls == call.input.text.lines
            v == call.result.value
        IN  /\ call.result.kind = "return"
            /\ h.kind = "header" =>
                  /\ v.branch = <<<<<<h.local>>, h.remote>>>>
                  /\ v.counts = <<<<BehindOf(h.markers), AheadOf(h.markers)>>>>
            /\ h.kind = "other" =>
                  /\ v.branch = <<<<<<>>, <<>>>>>>
                  /\ v.counts = <<<<0, 0>>>>
                  /\ call.input.pathspec = Dot =>
                        \A k \in DOMAIN ls :
                            EntryOf(ls[k]) \in Range(v.changes[1])

\* A changes call on an output of a header and one file line, which
\* neither is a rename or copy line nor has a path that cannot be decoded.
OneFileLine ==
    /\ Parsed("changes")
    /\ call.input.text.first.kind = "header"
    /\ Len(call.input.text.lines) = 1
    /\ call.input.text.lines[1].kind = "file"
    /\ ~RenameOrCopy(call.input.text.lines[1])
    /\ call.input.text.lines[1].path \notin Undecodable

TestFive ==
    /\ Parsed("get_git_status")
    /\ call.input.pathspec # Dot
    /\ Len(call.input.text.lines) = 2
    /\ \E i, j \in 1..2 :
          /\ i # j
          /\ EntryOf(call.input.text.lines[i])[2] = MODIFIED
          /\ EntryOf(call.input.text.lines[i])[3] = UNCHANGED_
          /\ EntryOf(call.input.text.lines[j])[2] = UNCHANGED_
          /\ EntryOf(call.input.text.lines[j])[3] = ADDED

\* C15, as the specification has it: the record of the directory is
\* staged modified and unstaged added.
C15_TestFiveUnstagedAdded ==
    TestFive =>
        call.result.value.changes
            = <<<<<<call.input.pathspec, MODIFIED, ADDED>>>>>>

\* C15: the record of the directory is modified in both areas, the two
\* lines disagreeing in each.
C15_TestFiveBothModified ==
    TestFive =>
        /\ call.result.kind = "return"
        /\ call.result.value.changes
              = <<<<<<call.input.pathspec, MODIFIED, MODIFIED>>>>>>

C15_Witness ==
    /\ TestFive
    /\ call.input.text.lines[1].x = "M"
    /\ Len(call.result.value.changes[1]) = 1

\* The state of an area in which the lines have the states of the set.
Common(states) ==
    IF Cardinality(states) = 1 THEN CHOOSE st \in states : TRUE
    ELSE MODIFIED

\* C16: with a pathspec other than "." and more than one parsed line the
\* result is one record, of the pathspec, whose state in each area is the
\* common state of the lines in that area or modified when they differ,
\* in whatever order the lines come; with "." or one parsed line the
\* lines are reported one by one.
C16_DirectorySummedUp ==
    (Parsed("get_git_status") /\ call.input.text.first.kind = "header"
        /\ FileLinesOnly(call.input.text.lines)) =>
        LET ls == call.input.text.lines
            parsed == {k \in DOMAIN ls : ~RenameOrCopy(ls[k])}
            got == call.result.value.changes[1]
        IN  /\ call.result.kind = "return"
            /\ IF call.input.pathspec # Dot /\ Cardinality(parsed) > 1
               THEN got = <<<<call.input.pathspec,
                              Common({StagedOf(ls[k]) : k \in parsed}),
                              Common({UnstagedOf(ls[k]) : k \in parsed})>>>>
               ELSE /\ Len(got) = Cardinality(parsed)
                    /\ \A k \in parsed : EntryOf(ls[k]) \in Range(got)

C16_Witness ==
    /\ Parsed("get_git_status")
    /\ Len(call.input.text.lines) > 2
    /\ call.result.kind = "return"
    /\ call.result.value.changes
          = <<<<<<call.input.pathspec, ADDED, MODIFIED>>>>>>

(***************************************************************************)
(* Properties of the commit record parser                                  *)
(***************************************************************************)

\* The value of the first header line that carries the label: <<>> when
\* there is none, else <<value>>.
FirstOf(header, label) ==
    LET hits == {k \in DOMAIN header : header[k].label = label}
    IN  IF hits = {} THEN <<>>
        ELSE <<header[CHOOSE k \in hits : \A j \in hits : k <= j].value>>

\* A record with a description section has been parsed.
HistoryParsed ==
    /\ call.fn = "_parse_history_record"
    /\ call.done
    /\ call.input.description # <<>>

\* C17: what follows the first description marker is the description, as
\* it is, and none of its lines is matched against the labels; each of
\* id and title has the value of the first header line that carries its
\* label, and is absent when no header line does.
C17_DescriptionVerbatim ==
    HistoryParsed =>
        LET h == call.result.value
        IN  /\ h[Key("description")] = JoinText(call.input.description[1])
            /\ \A label \in {"id", "title"} :
                  LET first == FirstOf(call.input.header, label)
                  IN  IF first = <<>> THEN Key(label) \notin DOMAIN h
                      ELSE h[Key(label)] = first[1]
            /\ Key("commit_date") \in DOMAIN h =>
                  FirstOf(call.input.header, "commit_date") # <<>>

C17_Witness ==
    /\ HistoryParsed
    /\ call.input.description[1] # <<>>
    /\ call.input.description[1][1] = <<"t", "i", "t", "l", "e", ":", "z", "z">>
    /\ FirstOf(call.input.header, "title") = <<>>
    /\ Len(call.input.header) > 1
    /\ Key("title") \notin DOMAIN call.result.value

(***************************************************************************)
(* Properties of ChangedStatus                                             *)
(***************************************************************************)

\* The numbers of the states.
ValidCodes == {0, 1, 2, 3, 10, 11, 98, 99}

\* unchanged, added, removed, modified, edited, renamed, copied, ignored
\* and unknown
ValidNames ==
    {<<"u", "n", "c", "h", "a", "n", "g", "e", "d">>,
     <<"a", "d", "d", "e", "d">>, <<"r", "e", "m", "o", "v", "e", "d">>,
     <<"m", "o", "d", "i", "f", "i", "e", "d">>,
     <<"e", "d", "i", "t", "e", "d">>, <<"r", "e", "n", "a", "m", "e", "d">>,
     <<"c", "o", "p", "i", "e", "d">>, <<"i", "g", "n", "o", "r", "e", "d">>,
     <<"u", "n", "k", "n", "o", "w", "n">>}

CodeConverted ==
    call.fn = "to_string" /\ call.done /\ call.input \in ValidCodes

NameConverted ==
    call.fn = "from_string" /\ call.done /\ call.input \in ValidNames

\* C18, as the specification has it: from_string(to_string(v)) = v for
\* every state number v, and to_string(from_string(n)) = n for every
\* state name n, edited included.
C18_RoundTripAllNames ==
    /\ CodeConverted =>
          /\ call.result.kind = "return"
          /\ from_string(call.result.value) = Return(call.input)
    /\ NameConverted =>
          /\ call.result.kind = "return"
          /\ to_string(call.result.value) = Return(call.input)

\* C18: from_string(to_string(v)) = v for every state number v, and
\* to_string(from_string(n)) = n for every state name n but edited, which
\* has the number of modified and comes back as modified.
C18_RoundTripButAlias ==
    /\ CodeConverted =>
          /\ call.result.kind = "return"
          /\ from_string(call.result.value) = Return(call.input)
    /\ NameConverted =>
          /\ call.result.kind = "return"
          /\ to_string(call.result.value)
                = Return(IF call.input = <<"e", "d", "i", "t", "e", "d">>
                         THEN <<"m", "o", "d", "i", "f", "i", "e", "d">>
                         ELSE call.input)

C18_Witness ==
    /\ NameConverted
    /\ call.input = <<"e", "d", "i", "t", "e", "d">>
    /\ call.result = Return(3)

(***************************************************************************)
(* Properties of the features                                              *)
(***************************************************************************)

Invoked == call.fn = "invoke" /\ call.done

Disabled(cls, member) ==
    /\ member \in DOMAIN Class(cls)
    /\ ~Class(cls)[member].enabled

\* C19: using a member of a backend class whose feature is marked
\* enabled = False fails with NotImplementedError; on VCSBackendBase that
\* is every member, on MercurialBackend every member but the branch getter.
C19_DisabledRaisesNotImplemented ==
    (Invoked /\ Disabled(call.input.cls, call.input.member)) =>
        /\ call.result.kind = "raise"
        /\ call.result.error.class = "NotImplementedError"

Checked == call.fn = "check" /\ call.done

Enabled(cls, member) ==
    /\ member \in DOMAIN Class(cls)
    /\ Class(cls)[member].enabled

\* all=True asks for every member of the group, all=False for at least one.
GroupEnabled(cls, groupname, all) ==
    IF all THEN \A m \in GROUPS_MAPPING[groupname] : Enabled(cls, m)
    ELSE \E m \in GROUPS_MAPPING[groupname] : Enabled(cls, m)

\* C20: check(group, all) answers whether the features of the group are
\* enabled in the class: all of them when all is True (the default), at
\* least one of them when all is False.
C20_GroupCheckAnswers ==
    Checked =>
        LET a == call.input.args
            all == IF Len(a) > 1 THEN a[2] ELSE TRUE
        IN  call.result =
                Return(IF GroupEnabled(call.input.cls, a[1], all)
                       THEN "True" ELSE "False")

(***************************************************************************)
(* Properties of the feature names                                         *)
(***************************************************************************)

Subclassed == call.fn = "__init_subclass__" /\ call.done

\* A declared operation whose feature gives it another name.
Renamed(body, key) ==
    /\ body[key].func.is_feature
    /\ body[key].func.name # key

\* C21: every operation of a subclass, method or property accessor, whose
\* feature name differs from its declared name is an attribute of the class
\* under the feature name too, and that attribute is the same operation.
C21_LogicalNameExposed ==
    Subclassed =>
        \A key \in DOMAIN call.input :
            Renamed(call.input, key) =>
                LET name == call.input[key].func.name
                    cls == call.result.value
                IN  /\ name \in DOMAIN cls
                    /\ cls[name].func = call.input[key].func

(***************************************************************************)
(* Properties of the git operations                                        *)
(***************************************************************************)

\* The branch that the status query reports: none when the query failed or
\* wrote no header.
Reported(input) ==
    IF input.returncode = 0 /\ input.text.first.kind = "header"
    THEN <<input.text.first.local>>
    ELSE <<>>

Failure(result, class, method) ==
    /\ result.kind = "raise"
    /\ result.error.class = class
    /\ result.error.method = method

\* C22: assigning the branch returns only if the checkout exited with zero
\* and the status query then reports the requested branch; after a
\* non-zero exit, or when the reported branch is another or none, it raises
\* VCSPropertyError for the property branch and the operation set.
C22_BranchSetOrPropertyFailure ==
    (call.fn = "branch.fset" /\ call.done /\ call.input.retcode # <<>>) =>
        LET done == /\ call.input.retcode = <<0>>
                    /\ Reported(call.input) = <<call.input.branchname>>
        IN  /\ call.result.kind = "return" => done
            /\ ~done => Failure(call.result, "VCSPropertyError",
                                <<"branch", "set">>)

\* The listing queries a property runs, in the order of its result.
QueriesOf(fn) ==
    CASE fn = "branches" -> <<"branch", "tags", "remotes">>
      [] fn = "editable_branches" -> <<"branch">>
      [] fn = "tags" -> <<"tags">>

\* A query that git answered with exit code 0 and at least one name.
Listed(input, key) ==
    /\ input.git
    /\ input.queries[key][1] = <<0>>
    /\ input.queries[key][2] # <<>>

RECURSIVE NamesOf(_, _)
NamesOf(input, keys) ==
    IF keys = <<>> THEN <<>>
    ELSE input.queries[Head(keys)][2] \o NamesOf(input, Tail(keys))

\* C23: branches, editable_branches and tags return the names listed, or,
\* when a listing query they run fails or lists nothing, raise
\* VCSPropertyError naming the property; nothing else is raised and None is
\* never returned.
C23_ListedOrPropertyFailure ==
    (call.fn \in {"branches", "editable_branches", "tags"} /\ call.done) =>
        IF \A k \in DOMAIN QueriesOf(call.fn) :
               Listed(call.input, QueriesOf(call.fn)[k])
        THEN call.result =
                 Return(<<NamesOf(call.input, QueriesOf(call.fn))>>)
        ELSE Failure(call.result, "VCSPropertyError", <<call.fn, "get">>)

\* C24: when the status query fails, change(path) raises VCSUnexpectedError
\* carrying the operation name change and the error text, and no other
\* kind of error.
C24_ChangeFailsUnexpected ==
    (call.fn = "change" /\ call.done /\ call.input.returncode # 0) =>
        /\ Failure(call.result, "VCSUnexpectedError", "change")
        /\ call.result.error.error = "Failed to get git changes"

\* The files that still have a change in the working tree (untracked ones
\* included) or in the index.
UnstagedLeft(ls) == \E k \in DOMAIN ls : ls[k].y # " "
StagedLeft(ls) == \E k \in DOMAIN ls : ls[k].x \notin {" ", "?"}

Bool(b) == IF b THEN "True" ELSE "False"

\* C25: stage_all returns True exactly when the repository has no unstaged
\* change after the call, unstage_all exactly when it has no staged change,
\* for any number of changed files, none included.
C25_AllStagedOrUnstaged ==
    /\ (call.fn = "stage_all" /\ call.done) =>
          call.result = Return(Bool(~UnstagedLeft(call.input.text.lines)))
    /\ (call.fn = "unstage_all" /\ call.done) =>
          call.result = Return(Bool(~StagedLeft(call.input.text.lines)))

(***************************************************************************)
(* Properties of VCSAuthError                                              *)
(***************************************************************************)

\* C26: are_credentials_inserted is true exactly when every field of
\* required_credentials was given to the error, false when one is missing.
C26_CredentialsInserted ==
    (call.fn = "are_credentials_inserted" /\ call.done) =>
        call.result =
            Return(Bool(\A k \in DOMAIN call.input.required_credentials :
                           call.input.required_credentials[k]
                               \in DOMAIN call.input.credentials))

(***************************************************************************)
(* Properties of create_branch                                             *)
(***************************************************************************)

BranchCreated == call.fn = "create_branch" /\ call.done

\* C27: create_branch returns True exactly when the new branch is the
\* current one after the call, also when the orphan checkout succeeded and
\* the removal of the tracked content failed.
C27_TrueIffOnNewBranch ==
    (BranchCreated /\ call.result.kind = "return") =>
        call.result.value
            = Bool(call.result.repo.branch = call.input.branchname)

Removal(c) == c.cmd = "rm"

\* C28: create_branch issues `git rm -r .` only when from_current is false
\* and the checkout has exited with 0; with from_current true or after a
\* failed checkout it issues no removal and the tracked content is as it
\* was.
C28_RemovalOnlyOnOrphan ==
    BranchCreated =>
        LET cs == call.result.commands
            orphan == ~call.input.from_current /\ call.input.checkout = <<0>>
        IN  /\ (\E k \in DOMAIN cs : Removal(cs[k])) => orphan
            /\ ~orphan =>
                  /\ \A k \in DOMAIN cs : ~Removal(cs[k])
                  /\ call.result.repo.tracked = call.input.repo.tracked

\* A checkout that failed in a repository with tracked content, where the
\* removal would have exited with 0.
C28_Witness ==
    /\ BranchCreated
    /\ ~call.input.from_current
    /\ call.input.checkout = <<1>>
    /\ call.input.rm = <<0>>
    /\ call.input.repo.tracked
    /\ call.result.repo.tracked
    /\ Len(call.result.commands) = 1

(***************************************************************************)
(* Deleting through the manager                                            *)
(***************************************************************************)

\* C29: deleting through the manager a name that the active backend has
\* and the manager type has not comes to an end without an error, and the
\* backend does not have the attribute afterwards.
C29_DeleteReachesBackend ==
    (/\ last.op = "del"
     /\ last.name \in BackendDir(_backend)
     /\ last.name \notin ManagerAttrs) =>
        /\ last.result = "ok"
        /\ last.target = _backend.id
        /\ last.name \notin _backend.dict

(***************************************************************************)
(* Properties of send_args_to_spyder                                       *)
(***************************************************************************)

\* C30: when send_args_to_spyder has sent its arguments within the 200
\* attempts, the running instance has received each argument once and in
\* the order of the list, also when an attempt failed after some arguments
\* had been sent; the function gives up after at most 200 failed attempts.
C30_EachArgumentOnce ==
    /\ client.x <= Retries
    /\ client.pc = "exhausted" => client.x = Retries
    /\ client.pc = "done" =>
          server.received
              = [k \in DOMAIN client.args |-> abspath(client.args[k])]

====
